---- MODULE Spec2Model ----
(***************************************************************************)
(* bag2rrd: the conversion pipeline of convert_bag (src/src/convert.rs)    *)
(* with its segment rotation, the flush worker pool and the file sink of   *)
(* the open recording.                                                     *)
(*                                                                         *)
(* Processes: the producer (the thread running convert_bag), one flush     *)
(* worker per configured worker, and the writer thread of the recording    *)
(* sink, which moves logged data into the file of the recording.           *)
(***************************************************************************)
EXTENDS Integers, Sequences, FiniteSets, TLC

\* ------------------------------------------------------------------ bounds
MaxRecords  == 2   \* message records in the container
MaxPayload  == 1   \* payload length of a record, in bytes
MaxSegSize  == 2   \* largest --segment-size tried
MaxSegBytes == 2   \* largest --segment-bytes tried
MaxWorkers  == 2   \* largest --flush-workers tried (flush-stage runs)
PipelineWorkers == 1  \* largest --flush-workers tried (pipeline runs)
MaxTime     == 2   \* largest record time of a container (filter runs)
MaxWindow   == 1   \* largest --start / --end tried (filter runs)
MaxTransforms == 2 \* transforms in one TF message (transform graph runs)
MaxTfTime   == 2   \* largest message and query time (transform graph runs)
MaxBuffer   == 2   \* largest --tf-buffer-seconds tried (transform graph runs)
MaxSamples  == 3   \* dynamic samples held by the graph (transform graph runs)
MaxQuerySamples == 2  \* dynamic samples held by a queried graph
MaxTimeout  == 1   \* largest BAG2RRD_FLUSH_TIMEOUT_SECS tried
GraphRecords == 3  \* message records of the runs that query the graph across segments
PipelineBuffer == 1  \* --tf-buffer-seconds of the pipeline runs

\* ------------------------------------------------------- program constants
max_stable_checks == 10

\* --------------------------------------------------------------- variables
VARIABLES
  connections,        \* connection table, as the set of declared type names
  bag_path,           \* options.bag_path, as a sequence of characters
  segment_size,       \* options.segment_size : Option<usize>, {} or {k}
  segment_bytes,      \* options.segment_bytes : Option<u64>, {} or {k}
  flush_workers,      \* options.flush_workers
  dry_run,            \* options.dry_run
  include_topics,     \* options.include_topics, as a set
  exclude_topics,     \* options.exclude_topics, as a set
  start_time,         \* options.start_time : Option<f64>, {} or {s}
  end_time,           \* options.end_time : Option<f64>, {} or {e}
  tf_buffer_seconds,  \* options.tf_buffer_seconds
  flush_timeout_secs, \* BAG2RRD_FLUSH_TIMEOUT_SECS, 0 when unset
  chunks,             \* the message records of the container: [topic, time]
  bag_start_s,        \* time origin computed by the first pass
  total_msgs,         \* message records counted by the first pass
  dynamic,            \* tf_graph.dynamic: (parent, child) -> samples
  static_edges,       \* tf_graph.static_edges: (parent, child) -> sample
  static_graph,       \* tf_graph.static_graph: parent -> children
  resolved,           \* the last resolve call and what it returned
  ingest_ts,          \* history: message time of the last dynamic ingest
  nav_logged,         \* history: what the last odometry, pose or path record logged
  stop_flag,          \* flush_recording: the monitor's stop flag
  monitor_pc,         \* flush_recording: position of the monitor thread
  flush_done,         \* flush_recording: the writer thread has sent ()
  flush_warned,       \* history: flush_recording has warned of a timeout
  pos,                \* message records consumed by the second pass
  pc,                 \* position of the producer in convert_bag
  rec,                \* Option<RecordingStream>: {} or {file id}
  dropping,           \* recording being dropped by the producer: {} or {id}
  segment_index,
  segment_images,
  segment_raw_bytes,
  current_tmp_path,
  current_final_path,
  kept_msgs,
  stats,
  tmp_dir_created,
  flush_q,            \* jobs in the flush channel
  flush_tx_open,      \* the producer still holds flush_tx
  result_q,           \* results in the result channel
  result_rx_open,     \* the producer still holds result_rx
  completed_jobs,
  total_jobs,
  w_pc,               \* position of each flush worker
  w_job,
  w_last_size,
  w_stable,
  fs,                 \* file system: path -> file id
  file_size,          \* file id -> bytes on disk (in chunks)
  sink_pending,       \* file id -> chunks logged but not yet written
  submitted,          \* history: every FlushJob sent on flush_tx, in order
  recv_count,         \* history: part_index -> times received by a worker
  result_of           \* history: part_index -> outcomes sent by workers

vars == <<connections, bag_path, segment_size, segment_bytes, flush_workers, dry_run,
          include_topics, exclude_topics, start_time, end_time,
          tf_buffer_seconds, flush_timeout_secs, chunks, bag_start_s, total_msgs, dynamic,
          static_edges, static_graph, resolved, ingest_ts, nav_logged,
          stop_flag, monitor_pc, flush_done, flush_warned,
          pos, pc, rec, dropping, segment_index, segment_images,
          segment_raw_bytes, current_tmp_path, current_final_path, kept_msgs,
          stats, tmp_dir_created, flush_q, flush_tx_open, result_q,
          result_rx_open, completed_jobs, total_jobs, w_pc, w_job,
          w_last_size, w_stable, fs, file_size, sink_pending, submitted,
          recv_count, result_of>>

optVars  == <<connections, bag_path, segment_size, segment_bytes, flush_workers, dry_run,
              include_topics, exclude_topics, start_time, end_time,
              tf_buffer_seconds, flush_timeout_secs, chunks>>
passVars == <<bag_start_s, total_msgs>>
tfVars   == <<dynamic, static_edges, static_graph, resolved, ingest_ts>>
singleVars == <<stop_flag, monitor_pc, flush_done, flush_warned>>
segVars  == <<segment_index, segment_images, segment_raw_bytes,
              current_tmp_path, current_final_path>>
workVars == <<w_pc, w_job, w_last_size, w_stable>>
fileVars == <<fs, file_size, sink_pending>>
histVars == <<submitted, recv_count, result_of>>

\* ----------------------------------------------------------------- helpers
IsSome(o) == o # {}
Unwrap(o) == CHOOSE x \in o : TRUE
UnwrapOr(o, d) == IF o = {} THEN d ELSE Unwrap(o)

Workers == 1..(IF MaxWorkers >= PipelineWorkers THEN MaxWorkers ELSE PipelineWorkers)
Spawned == 1..flush_workers

\* type names dispatched by convert_bag
UnitTypes == {"sensor_msgs/Image", "sensor_msgs/CompressedImage",
              "sensor_msgs/PointCloud2", "sensor_msgs/LaserScan",
              "sensor_msgs/NavSatFix"}
TfTypes == {"tf2_msgs/TFMessage", "tf/tfMessage",
            "tf2_msgs/TFMessageStatic", "tf/tfMessageStatic"}
NavTypes == {"nav_msgs/Odometry", "geometry_msgs/PoseStamped", "nav_msgs/Path"}
KnownTypes == UnitTypes \cup TfTypes \cup NavTypes
TypeNames == KnownTypes \cup {"std_msgs/String"}

\* payload conditions a record can be in
PayloadsOf(tp) ==
  {"ok", "truncated"} \cup
  (IF tp \in {"sensor_msgs/Image", "sensor_msgs/CompressedImage",
              "sensor_msgs/PointCloud2", "sensor_msgs/NavSatFix"}
   THEN {"bad_content"} ELSE {})

\* What the mapping function of a type returns for a payload:
\* "logged" (Ok, data sent to the sink), "ignored" (Ok, warning only) or
\* "err" (Err, propagated by `?` in convert_bag).
DecodeOutcome(tp, payload) ==
  IF payload = "ok" THEN "logged"
  ELSE IF tp = "sensor_msgs/Image" THEN "ignored"
  ELSE IF tp = "sensor_msgs/CompressedImage"
       THEN (IF payload = "truncated" THEN "ignored" ELSE "err")
  ELSE IF tp = "sensor_msgs/NavSatFix"
       THEN (IF payload = "truncated" THEN "err" ELSE "ignored")
  ELSE "err"

\* {:04} formatting of a part number: decimal digits, zero padded to 4
RECURSIVE Digits(_)
Digits(n) == IF n < 10 THEN <<n>> ELSE Append(Digits(n \div 10), n % 10)

RECURSIVE PadLeft(_, _)
PadLeft(ds, width) == IF Len(ds) >= width THEN ds ELSE PadLeft(<<0>> \o ds, width)

Pad4(n) == PadLeft(Digits(n), 4)

NoPath == [dir |-> "", stem |-> <<>>, part |-> <<>>, ext |-> ""]
OutputPath == [dir |-> "out", stem |-> <<"out">>, part |-> <<>>, ext |-> "rrd"]

\* (variant: 0-based part number)
FinalPathOf_ZeroBased(idx) ==
  [dir |-> "out", stem |-> <<"out", "_part">>, part |-> Pad4(idx), ext |-> "rrd"]

\* "<stem>_part<NNNN>.<ext>" next to the output path
FinalPathOf(idx) ==
  [dir |-> "out", stem |-> <<"out", "_part">>, part |-> Pad4(idx + 1), ext |-> "rrd"]

\* bag.replace("/", "_")
RECURSIVE ReplaceSlash(_)
ReplaceSlash(str) ==
  IF str = <<>> THEN <<>>
  ELSE <<IF Head(str) = "/" THEN "_" ELSE Head(str)>> \o ReplaceSlash(Tail(str))

\* "bag2rrd_tmp_<bag>_" with the slashes of the bag path replaced
TmpStemOf(bag) == <<"bag2rrd_tmp_">> \o ReplaceSlash(bag) \o <<"_">>

\* "bag2rrd_tmp_<bag>_<NNNN>.<ext>" in the temp directory, for the segment of
\* 0-based index idx of the input `bag`
TmpPathOfBag(bag, idx) ==
  [dir |-> "tmp", stem |-> TmpStemOf(bag), part |-> Pad4(idx + 1), ext |-> "rrd"]

TmpPathOf(idx) == TmpPathOfBag(bag_path, idx)

segmentation_enabled == (IsSome(segment_size) \/ IsSome(segment_bytes)) /\ ~dry_run
seg_size  == UnwrapOr(segment_size, 0)
seg_bytes == UnwrapOr(segment_bytes, 0)

NoJob == [part_index |-> 0, tmp_path |-> NoPath, final_path |-> NoPath,
          raw_bytes_in_part |-> 0]

FlushJob(idx, tmp, final, bytes) ==
  [part_index |-> idx, tmp_path |-> tmp, final_path |-> final,
   raw_bytes_in_part |-> bytes]

StatsZero == [images |-> 0, compressed_images |-> 0, pointclouds |-> 0,
              laserscans |-> 0, gps_fixes |-> 0, skipped_type |-> 0,
              filtered_out |-> 0, raw_bytes |-> 0]

Extend(f, k, v) == [x \in DOMAIN f \cup {k} |-> IF x = k THEN v ELSE f[x]]
Remove(f, k) == [x \in DOMAIN f \ {k} |-> f[x]]

\* ------------------------------------------------------ first pass, filters
\* Topics of the containers of the filter runs.
Topics == {"/a", "/b"}

MessageData(topic, time) == [topic |-> topic, time |-> time]

\* Times are in seconds and exactly representable, so that dividing by
\* 1_000_000_000.0 and subtracting bag_start_s are exact.

\* f64::min over the record times, starting from INFINITY (modelled as {}).
RECURSIVE FirstPassMin(_, _)
FirstPassMin(records, acc) ==
  IF records = <<>> THEN acc
  ELSE LET t == Head(records).time IN
       FirstPassMin(Tail(records),
                    IF acc = {} THEN {t}
                    ELSE IF t < Unwrap(acc) THEN {t} ELSE acc)

\* (variant: the first pass looks only at records of included topics)
FirstPassRecords_Filtered ==
  SelectSeq(chunks, LAMBDA m : (include_topics = {} \/ m.topic \in include_topics)
                               /\ m.topic \notin exclude_topics)

\* The records the first pass walks: every MessageData of every chunk.
FirstPassRecords == chunks

\* bag_start_s: the minimum if finite, else 0.0
BagStart(records) ==
  LET bag_start_ns == FirstPassMin(records, {}) IN
  IF bag_start_ns # {} THEN Unwrap(bag_start_ns) ELSE 0

\* Topic filter of the second pass.
TopicPasses(topic) ==
  /\ ~(include_topics # {} /\ topic \notin include_topics)
  /\ topic \notin exclude_topics

ts_rel(time) == time - bag_start_s

\* (variant: bounds exclusive)
TimePasses_Exclusive(t) ==
  /\ ~(IsSome(start_time) /\ t <= Unwrap(start_time))
  /\ ~(IsSome(end_time) /\ t >= Unwrap(end_time))

\* Time window of the second pass.
TimePasses(t) ==
  /\ ~(IsSome(start_time) /\ t < Unwrap(start_time))
  /\ ~(IsSome(end_time) /\ t > Unwrap(end_time))

\* ------------------------------------------------------- transform graph
\* Frame names, in lexicographic order (the order of the BTreeMap keys).
Frames == {1, 2, 3}

\* Rotations are the quarter turns about z, 0 being the identity quaternion
\* (0, 0, 0, 1); they are unit quaternions, which normalisation leaves as
\* they are.
Rotations == 0..3

TfSample(t, trans, quat) == [t |-> t, trans |-> trans, quat |-> quat]

TfGraphNew == [dynamic |-> << >>, static_edges |-> << >>, static_graph |-> << >>]

VecAdd(u, v) == <<u[1] + v[1], u[2] + v[2], u[3] + v[3]>>
VecNeg(u) == <<-u[1], -u[2], -u[3]>>
RotVec(k, v) ==
  IF k = 0 THEN v
  ELSE IF k = 1 THEN <<-v[2], v[1], v[3]>>
  ELSE IF k = 2 THEN <<-v[1], -v[2], v[3]>>
  ELSE <<v[2], -v[1], v[3]>>

\* Isometry3: identity, product and inverse
IsoIdentity == [trans |-> <<0, 0, 0>>, rot |-> 0]
IsoMul(a, b) == [trans |-> VecAdd(a.trans, RotVec(a.rot, b.trans)),
                 rot |-> (a.rot + b.rot) % 4]
IsoInverse(a) ==
  LET r == (4 - a.rot) % 4 IN [trans |-> VecNeg(RotVec(r, a.trans)), rot |-> r]

sample_to_isometry(sample) == [trans |-> sample.trans, rot |-> sample.quat]

\* Frames reached from the frames on `stack` over parent -> children edges.
RECURSIVE ReachFrom(_, _, _)
ReachFrom(graph, stack, visited) ==
  IF stack = {} THEN visited
  ELSE LET node == CHOOSE n \in stack : TRUE
           children == IF node \in DOMAIN graph THEN graph[node] ELSE {}
       IN  IF node \in visited
           THEN ReachFrom(graph, stack \ {node}, visited)
           ELSE ReachFrom(graph, (stack \ {node}) \cup children, visited \cup {node})

\* (variant: only a self edge or a direct back edge counts as a cycle)
would_create_cycle_Direct(graph, parent, child) ==
  \/ parent = child
  \/ (child \in DOMAIN graph /\ parent \in graph[child])

\* would the edge parent -> child close a cycle: can child reach parent
would_create_cycle(graph, parent, child) ==
  parent \in ReachFrom(graph, {child}, {})

\* BTreeMap::insert on static_edges
StaticInsert(edges, key, sample) == Extend(edges, key, sample)

\* The loop of ingest_tf_static_msg over the transforms of one message.
RECURSIVE IngestStaticLoop(_, _, _)
IngestStaticLoop(edges, graph, transforms) ==
  IF transforms = <<>> THEN [static_edges |-> edges, static_graph |-> graph]
  ELSE LET tf == Head(transforms)
           sample == TfSample(0, tf.trans, tf.rot)
       IN  IF would_create_cycle(graph, tf.parent, tf.child)
           THEN IngestStaticLoop(edges, graph, Tail(transforms))
           ELSE IngestStaticLoop(
                  StaticInsert(edges, <<tf.parent, tf.child>>, sample),
                  Extend(graph, tf.parent,
                         (IF tf.parent \in DOMAIN graph THEN graph[tf.parent] ELSE {})
                           \cup {tf.child}),
                  Tail(transforms))

\* The loop of ingest_tf_msg: entry(key).or_default().push(sample)
RECURSIVE IngestDynamicLoop(_, _, _)
IngestDynamicLoop(dyn, ts, transforms) ==
  IF transforms = <<>> THEN dyn
  ELSE LET tf == Head(transforms)
           key == <<tf.parent, tf.child>>
           old == IF key \in DOMAIN dyn THEN dyn[key] ELSE <<>>
       IN  IngestDynamicLoop(Extend(dyn, key, Append(old, TfSample(ts, tf.trans, tf.rot))),
                             ts, Tail(transforms))

\* (variant: a sample exactly at the cutoff is dropped)
prune_dynamic_Strict(dyn, latest_ts, buffer_seconds) ==
  LET cutoff == latest_ts - buffer_seconds IN
  [key \in DOMAIN dyn |-> SelectSeq(dyn[key], LAMBDA s : s.t > cutoff)]

\* samples.retain(|s| s.t >= cutoff) on every edge
prune_dynamic(dyn, latest_ts, buffer_seconds) ==
  LET cutoff == latest_ts - buffer_seconds IN
  [key \in DOMAIN dyn |-> SelectSeq(dyn[key], LAMBDA s : s.t >= cutoff)]

\* ingest_tf_msg on a parsed message
ingest_tf_msg(dyn, ts, transforms, buffer_seconds) ==
  prune_dynamic(IngestDynamicLoop(dyn, ts, transforms), ts, buffer_seconds)

\* ----------------------------------------------------------------- resolve
TfModes == {"Nearest", "Interpolate", "None"}

KeyLess(a, b) == a[1] < b[1] \/ (a[1] = b[1] /\ a[2] < b[2])

\* The keys of a BTreeMap in iteration order.
RECURSIVE SortedKeys(_)
SortedKeys(S) ==
  IF S = {} THEN <<>>
  ELSE LET m == CHOOSE k \in S : \A o \in S : o = k \/ KeyLess(k, o)
       IN  <<m>> \o SortedKeys(S \ {m})

RECURSIVE Reverse(_)
Reverse(q) == IF q = <<>> THEN <<>> ELSE Append(Reverse(Tail(q)), Head(q))

\* (variant: an edge is walked from parent to child only)
RECURSIVE VisitKeys_Forward(_, _, _)
VisitKeys_Forward(current, keys, st) ==
  IF keys = <<>> THEN st
  ELSE LET p == Head(keys)[1]
           c == Head(keys)[2]
           st1 == IF p = current /\ c \notin st.visited
                  THEN [visited |-> st.visited \cup {c},
                        parent_map |-> Extend(st.parent_map, c, <<p, c>>),
                        queue |-> Append(st.queue, c)]
                  ELSE st
       IN  VisitKeys_Forward(current, Tail(keys), st1)

\* The two `if`s of find_path for every key of one edge map.
RECURSIVE VisitKeys(_, _, _)
VisitKeys(current, keys, st) ==
  IF keys = <<>> THEN st
  ELSE LET p == Head(keys)[1]
           c == Head(keys)[2]
           st1 == IF p = current /\ c \notin st.visited
                  THEN [visited |-> st.visited \cup {c},
                        parent_map |-> Extend(st.parent_map, c, <<p, c>>),
                        queue |-> Append(st.queue, c)]
                  ELSE st
           st2 == IF c = current /\ p \notin st1.visited
                  THEN [visited |-> st1.visited \cup {p},
                        parent_map |-> Extend(st1.parent_map, p, <<current, p>>),
                        queue |-> Append(st1.queue, p)]
                  ELSE st1
       IN  VisitKeys(current, Tail(keys), st2)

\* Walk parent_map back from the target (the path before path.reverse()).
RECURSIVE ReconstructPath(_, _)
ReconstructPath(parent_map, node) ==
  IF node \in DOMAIN parent_map
  THEN <<parent_map[node]>> \o ReconstructPath(parent_map, parent_map[node][1])
  ELSE <<>>

RECURSIVE BfsLoop(_, _, _)
BfsLoop(g, target, st) ==
  IF st.queue = <<>> THEN {}
  ELSE LET current == Head(st.queue)
           popped  == [st EXCEPT !.queue = Tail(st.queue)]
       IN  IF current = target
           THEN {Reverse(ReconstructPath(st.parent_map, current))}
           ELSE BfsLoop(g, target,
                  VisitKeys(current, SortedKeys(DOMAIN g.dynamic),
                    VisitKeys(current, SortedKeys(DOMAIN g.static_edges), popped)))

\* find_path: {} for None, {path} for Some(path)
find_path(g, source, target) ==
  BfsLoop(g, target, [visited |-> {source}, parent_map |-> << >>, queue |-> <<source>>])

\* (variant: the first sample at or before the query time)
RECURSIVE FindAt_AtOrBefore(_, _)
FindAt_AtOrBefore(samples, at_time) ==
  IF samples = <<>> THEN {}
  ELSE IF Head(samples).t <= at_time THEN {Head(samples)}
  ELSE FindAt_AtOrBefore(Tail(samples), at_time)

\* TfMode::None: the first sample at the query time
RECURSIVE FindAt(_, _)
FindAt(samples, at_time) ==
  IF samples = <<>> THEN {}
  ELSE IF Head(samples).t = at_time THEN {Head(samples)}
  ELSE FindAt(Tail(samples), at_time)

Abs(x) == IF x < 0 THEN -x ELSE x

\* (variant: best replaced also on an equal difference)
RECURSIVE NearestLoop_LastTie(_, _, _)
NearestLoop_LastTie(samples, at_time, best) ==
  IF samples = <<>> THEN best
  ELSE LET s == Head(samples) IN
       NearestLoop_LastTie(Tail(samples), at_time,
                   IF best = {} \/ Abs(s.t - at_time) <= Abs(Unwrap(best).t - at_time)
                   THEN {s} ELSE best)

\* TfMode::Nearest: best replaced only on a strictly smaller difference
RECURSIVE NearestLoop(_, _, _)
NearestLoop(samples, at_time, best) ==
  IF samples = <<>> THEN best
  ELSE LET s == Head(samples) IN
       NearestLoop(Tail(samples), at_time,
                   IF best = {} \/ Abs(s.t - at_time) < Abs(Unwrap(best).t - at_time)
                   THEN {s} ELSE best)

\* TfMode::Interpolate: the bracketing samples
RECURSIVE BracketLoop(_, _, _, _)
BracketLoop(samples, at_time, before, after) ==
  IF samples = <<>> THEN [before |-> before, after |-> after]
  ELSE LET s == Head(samples) IN
       BracketLoop(Tail(samples), at_time,
                   IF s.t <= at_time /\ (before = {} \/ s.t > Unwrap(before).t)
                   THEN {s} ELSE before,
                   IF s.t >= at_time /\ (after = {} \/ s.t < Unwrap(after).t)
                   THEN {s} ELSE after)

\* (variant: the earlier sample is held up to the later one)
Lerp_Hold(b, a, num, den) == b

\* b + t * (a - b) with t = num / den (exact when den divides the product)
Lerp(b, a, num, den) == b + (num * (a - b)) \div den

\* slerp between quarter turns, along the shorter arc
Slerp(qb, qa, num, den) ==
  LET diff == ((qa - qb + 6) % 4) - 2 IN (qb + 4 + (num * diff) \div den) % 4

interpolate_samples(samples, at_time, mode) ==
  IF mode = "None"
  THEN {sample_to_isometry(s) : s \in FindAt(samples, at_time)}
  ELSE IF mode = "Nearest"
  THEN {sample_to_isometry(s) : s \in NearestLoop(samples, at_time, {})}
  ELSE LET br == BracketLoop(samples, at_time, {}, {}) IN
       IF br.before # {} /\ br.after # {} /\ Unwrap(br.after).t # Unwrap(br.before).t
       THEN LET b == Unwrap(br.before)
                a == Unwrap(br.after)
                num == at_time - b.t
                den == a.t - b.t
            IN  {sample_to_isometry(
                   TfSample(at_time,
                            <<Lerp(b.trans[1], a.trans[1], num, den),
                              Lerp(b.trans[2], a.trans[2], num, den),
                              Lerp(b.trans[3], a.trans[3], num, den)>>,
                            Slerp(b.quat, a.quat, num, den)))}
       ELSE IF br.before # {} THEN {sample_to_isometry(Unwrap(br.before))}
       ELSE IF br.after # {} THEN {sample_to_isometry(Unwrap(br.after))}
       ELSE {}

\* (variant: an edge met against its key direction is not inverted)
get_edge_transform_NoInverse(g, parent, child, at_time, mode) ==
  IF <<parent, child>> \in DOMAIN g.static_edges
  THEN {sample_to_isometry(g.static_edges[<<parent, child>>])}
  ELSE IF <<child, parent>> \in DOMAIN g.static_edges
  THEN {sample_to_isometry(g.static_edges[<<child, parent>>])}
  ELSE IF <<parent, child>> \in DOMAIN g.dynamic
  THEN interpolate_samples(g.dynamic[<<parent, child>>], at_time, mode)
  ELSE IF <<child, parent>> \in DOMAIN g.dynamic
  THEN interpolate_samples(g.dynamic[<<child, parent>>], at_time, mode)
  ELSE {}

get_edge_transform(g, parent, child, at_time, mode) ==
  IF <<parent, child>> \in DOMAIN g.static_edges
  THEN {sample_to_isometry(g.static_edges[<<parent, child>>])}
  ELSE IF <<child, parent>> \in DOMAIN g.static_edges
  THEN {IsoInverse(sample_to_isometry(g.static_edges[<<child, parent>>]))}
  ELSE IF <<parent, child>> \in DOMAIN g.dynamic
  THEN interpolate_samples(g.dynamic[<<parent, child>>], at_time, mode)
  ELSE IF <<child, parent>> \in DOMAIN g.dynamic
  THEN {IsoInverse(i) : i \in interpolate_samples(g.dynamic[<<child, parent>>], at_time, mode)}
  ELSE {}

\* (variant: the running transform is applied on the other side)
ComposeStep_Flipped(edge_iso, iso) ==
  [trans |-> RotVec(edge_iso.rot, iso.trans), rot |-> (edge_iso.rot + iso.rot) % 4]

\* iso = edge_iso * iso
ComposeStep(edge_iso, iso) == IsoMul(edge_iso, iso)

\* The composition loop of resolve; `?` on an edge without transform.
RECURSIVE ComposeLoop(_, _, _, _, _)
ComposeLoop(g, path, at_time, mode, iso) ==
  IF path = <<>> THEN {iso}
  ELSE LET e == get_edge_transform(g, Head(path)[1], Head(path)[2], at_time, mode) IN
       IF e = {} THEN {}
       ELSE ComposeLoop(g, Tail(path), at_time, mode, ComposeStep(Unwrap(e), iso))

\* resolve: {} for None, {iso} for Some(iso)
resolve(g, target_frame, source_frame, at_time, mode) ==
  LET path == find_path(g, source_frame, target_frame) IN
  IF path = {} THEN {}
  ELSE ComposeLoop(g, Unwrap(path), at_time, mode, IsoIdentity)

\* (variant: the mappings are given a graph without the edges ingested)
tf_graph_Fresh == TfGraphNew

\* The transform graph as the value the TfGraph methods work on.
tf_graph == [dynamic |-> dynamic, static_edges |-> static_edges,
             static_graph |-> static_graph]

NoQuery == [target |-> 0, source |-> 0, at_time |-> 0, mode |-> "", result |-> {}]

\* ------------------------------------------------- odometry, pose and path
\* options.root_frame and options.tf_mode of every run
root_frame == 1
tf_mode == "Nearest"

\* Frames named by the header of a navigation record: frame 2, which a
\* transform of the container joins to the root frame, and frame 3, which
\* nothing joins to it.
NavFrames == {2, 3}

\* The pose an odometry, pose or path record carries, in its own frame.
NavPose == [trans |-> <<0, 0, 1>>, rot |-> 0]

NoNavLog == [pos |-> 0, frame |-> 0, poses |-> <<>>]

\* (variant: nothing is logged when the frame does not resolve)
NavFallback_Drop(iso) == <<>>

\* `else { iso }`: the pose as the record gives it
NavFallback(iso) == <<iso>>

\* The transforms odometry_to_rerun logs: the pose under the child path, and
\* the pose in the root frame when the parent frame resolves.
odometry_to_rerun(g, ts, frame) ==
  LET root_iso == resolve(g, root_frame, frame, ts, tf_mode) IN
  <<NavPose>> \o (IF root_iso # {} THEN <<IsoMul(Unwrap(root_iso), NavPose)>> ELSE <<>>)

\* The transform pose_stamped_to_rerun logs.
pose_stamped_to_rerun(g, ts, frame) ==
  LET root_iso == resolve(g, root_frame, frame, ts, tf_mode) IN
  IF root_iso # {} THEN <<IsoMul(Unwrap(root_iso), NavPose)>> ELSE NavFallback(NavPose)

\* The points path_to_rerun logs, for a path of one pose stamped with the
\* time of the record; a point carries the translation only.
path_to_rerun(g, ts, frame) ==
  LET root_iso == resolve(g, root_frame, frame, ts, tf_mode)
      final_iso == IF root_iso # {} THEN <<IsoMul(Unwrap(root_iso), NavPose)>>
                   ELSE NavFallback(NavPose)
  IN  [i \in 1..Len(final_iso) |-> [trans |-> final_iso[i].trans, rot |-> 0]]

NavEmit(tp, g, ts, frame) ==
  IF tp = "nav_msgs/Odometry" THEN odometry_to_rerun(g, ts, frame)
  ELSE IF tp = "geometry_msgs/PoseStamped" THEN pose_stamped_to_rerun(g, ts, frame)
  ELSE path_to_rerun(g, ts, frame)

\* -------------------------------------------------------------------- Init
\* The locals of convert_bag before the option validation.
InitLocals ==
  /\ bag_start_s = 0
  /\ total_msgs = 0
  /\ dynamic = TfGraphNew.dynamic
  /\ static_edges = TfGraphNew.static_edges
  /\ static_graph = TfGraphNew.static_graph
  /\ resolved = NoQuery
  /\ ingest_ts = 0
  /\ nav_logged = NoNavLog
  /\ stop_flag = FALSE
  /\ monitor_pc = "unspawned"
  /\ flush_done = FALSE
  /\ flush_warned = FALSE
  /\ pos = 0
  /\ pc = "validate"
  /\ rec = {}
  /\ dropping = {}
  /\ segment_index = 0
  /\ segment_images = 0
  /\ segment_raw_bytes = 0
  /\ current_tmp_path = NoPath
  /\ current_final_path = NoPath
  /\ kept_msgs = 0
  /\ stats = StatsZero
  /\ tmp_dir_created = FALSE
  /\ flush_q = <<>>
  /\ flush_tx_open = TRUE
  /\ result_q = <<>>
  /\ result_rx_open = TRUE
  /\ completed_jobs = 0
  /\ total_jobs = 0
  /\ w_pc = [w \in Workers |-> "unspawned"]
  /\ w_job = [w \in Workers |-> NoJob]
  /\ w_last_size = [w \in Workers |-> 0]
  /\ w_stable = [w \in Workers |-> 0]
  /\ fs = << >>
  /\ file_size = << >>
  /\ sink_pending = << >>
  /\ submitted = <<>>
  /\ recv_count = << >>
  /\ result_of = << >>

\* No topic filter, no time window.
DefaultFilters ==
  /\ include_topics = {}
  /\ exclude_topics = {}
  /\ start_time = {}
  /\ end_time = {}

\* Streams of the pipeline and flush-stage runs: records of one topic at one
\* time.
PipelineChunks == {[i \in 1..n |-> MessageData("/a", 1)] : n \in 0..MaxRecords}

\* Input paths: the pipeline runs read "x"; the runs that share a temp
\* directory read "x", "d/x" or "d_x".
PipelineBag == <<"x">>
Bags == {<<"x">>, <<"d", "/", "x">>, <<"d", "_", "x">>}

InitRun(maxWorkers) ==
  /\ bag_path = PipelineBag
  /\ flush_timeout_secs = 0
  /\ segment_size \in {{}} \cup {{k} : k \in 0..MaxSegSize}
  /\ segment_bytes \in {{}} \cup {{k} : k \in 0..MaxSegBytes}
  /\ flush_workers \in 0..maxWorkers
  /\ dry_run \in BOOLEAN
  /\ DefaultFilters
  /\ tf_buffer_seconds = PipelineBuffer
  /\ chunks \in PipelineChunks
  /\ InitLocals

\* Containers of the pipeline runs: one unit-counting type next to the
\* transform, navigation and unsupported types.
PipelineContainers ==
  {{u} \cup TfTypes \cup NavTypes \cup {"std_msgs/String"} : u \in UnitTypes}

Init == connections \in PipelineContainers /\ InitRun(PipelineWorkers)

\* Containers of the runs that exercise the flush stage: images only.
FlushContainers == {{"sensor_msgs/Image"}}

InitFlush == connections \in FlushContainers /\ InitRun(MaxWorkers)

\* Runs that exercise the filters.  Dry runs and single-output runs take any
\* stream over two topics and the times 1..MaxTime, any topic filter over
\* "/a" and any window; runs with one-unit segments take the unfiltered
\* streams of the pipeline runs.
FilterContainers == {{"sensor_msgs/Image", "tf2_msgs/TFMessage"}}

FilterChunks ==
  UNION {[1..n -> {MessageData(tp, t) : tp \in Topics, t \in 1..MaxTime}] : n \in 0..MaxRecords}

InitFilter ==
  /\ connections \in FilterContainers
  /\ bag_path = PipelineBag
  /\ flush_timeout_secs = 0
  /\ segment_bytes = {}
  /\ flush_workers = 1
  /\ tf_buffer_seconds = PipelineBuffer
  /\ \/ /\ segment_size = {}
        /\ dry_run \in BOOLEAN
        /\ include_topics \in {{}, {"/a"}}
        /\ exclude_topics \in {{}, {"/a"}}
        /\ start_time \in {{}} \cup {{k} : k \in 0..MaxWindow}
        /\ end_time \in {{}} \cup {{k} : k \in 0..MaxWindow}
        /\ chunks \in FilterChunks
     \/ /\ segment_size = {1}
        /\ dry_run = FALSE
        /\ DefaultFilters
        /\ chunks \in PipelineChunks
  /\ InitLocals


\* ------------------------------------------------------- producer: set-up
\* Option validation, then creation of the temp directory and of the worker
\* pool (which happens whether or not segmentation is enabled), then the
\* first pass over the records.
\* (variant: the worker count is not checked)
OptionsInvalid_NoWorkerCheck ==
  \/ (IsSome(segment_size) /\ Unwrap(segment_size) = 0)
  \/ (IsSome(segment_bytes) /\ Unwrap(segment_bytes) = 0)

\* The three bail! conditions of the segmentation validation.
OptionsInvalid ==
  \/ (IsSome(segment_size) /\ Unwrap(segment_size) = 0)
  \/ (IsSome(segment_bytes) /\ Unwrap(segment_bytes) = 0)
  \/ flush_workers = 0

Validate ==
  /\ pc = "validate"
  /\ IF OptionsInvalid
     THEN /\ pc' = "error"
          /\ flush_tx_open' = FALSE
          /\ result_rx_open' = FALSE
          /\ UNCHANGED <<tmp_dir_created, w_pc, passVars>>
     ELSE /\ pc' = "pass2"
          /\ tmp_dir_created' = TRUE
          /\ w_pc' = [w \in Workers |-> IF w \in Spawned THEN "recv" ELSE "unspawned"]
          /\ bag_start_s' = BagStart(FirstPassRecords)
          /\ total_msgs' = Len(FirstPassRecords)
          /\ UNCHANGED <<flush_tx_open, result_rx_open>>
  /\ UNCHANGED <<optVars, tfVars, nav_logged, singleVars, pos, rec, dropping, segVars, kept_msgs, stats,
                 flush_q, result_q, completed_jobs, total_jobs, w_job,
                 w_last_size, w_stable, fileVars, histVars>>

\* ------------------------------------------------ producer: second pass
\* The counter of `stats` a kept record of a unit-counting type increments.
StatField(tp) ==
  IF tp = "sensor_msgs/Image" THEN "images"
  ELSE IF tp = "sensor_msgs/CompressedImage" THEN "compressed_images"
  ELSE IF tp = "sensor_msgs/PointCloud2" THEN "pointclouds"
  ELSE IF tp = "sensor_msgs/LaserScan" THEN "laserscans"
  ELSE "gps_fixes"

\* Units and bytes a kept record adds to the open segment.
SegmentUnitsOf(tp) == IF segmentation_enabled /\ tp \in UnitTypes THEN 1 ELSE 0
SegmentBytesOf(tp, len) == IF segmentation_enabled /\ tp \in UnitTypes THEN len ELSE 0

\* The path the recording of the next kept record is saved to, and its file.
TargetPath == IF segmentation_enabled THEN TmpPathOf(segment_index) ELSE OutputPath
TargetId   == IF segmentation_enabled THEN segment_index + 1 ELSE 0

\* Early return with Err from the second pass: the locals of convert_bag are
\* dropped (recording, flush_tx, result_rx); the workers are not joined.
Abort ==
  /\ pc' = "error"
  /\ rec' = {}
  /\ flush_tx_open' = FALSE
  /\ result_rx_open' = FALSE

\* (variant: both thresholds required)
RotationDue_And(units, bytes) ==
  segmentation_enabled
  /\ (seg_size > 0 /\ units >= seg_size)
  /\ (seg_bytes > 0 /\ bytes >= seg_bytes)

\* Rotation condition evaluated after every dispatched record, on the unit
\* and byte counters of the open segment.
RotationDue(units, bytes) ==
  segmentation_enabled
  /\ (\/ (seg_size > 0 /\ units >= seg_size)
      \/ (seg_bytes > 0 /\ bytes >= seg_bytes))

\* flush_tx.send(job) on the unbounded channel.
SendJob(job) ==
  /\ flush_q' = Append(flush_q, job)
  /\ submitted' = Append(submitted, job)
  /\ recv_count' = Extend(recv_count, job.part_index, 0)
  /\ result_of' = Extend(result_of, job.part_index, <<>>)

DynamicTfTypes == {"tf2_msgs/TFMessage", "tf/tfMessage"}
StaticTfTypes == {"tf2_msgs/TFMessageStatic", "tf/tfMessageStatic"}

Transform(parent, child, trans, rot) ==
  [parent |-> parent, child |-> child, trans |-> trans, rot |-> rot]

\* TF messages of the containers of the pipeline runs: one transform 1 -> 2.
PipelineTfMessages == {<<Transform(1, 2, <<1, 0, 0>>, 0)>>}

TfMessagesOf(tp) == IF tp \in TfTypes THEN PipelineTfMessages ELSE {<<>>}

NavFramesOf(tp) == IF tp \in NavTypes THEN NavFrames ELSE {0}

\* One record that passed the filters, in a non-dry run: ensure the recording
\* exists, dispatch by type, update the counters, rotate the segment.  On
\* rotation the job is sent first; the recording taken out of `rec` is dropped
\* at the end of the block (DropRec).
Dispatch(tp, len, payload, ts, transforms, frame) ==
  LET needOpen == rec = {}
      id       == IF needOpen THEN TargetId ELSE Unwrap(rec)
      outcome  == IF tp \in KnownTypes THEN DecodeOutcome(tp, payload) ELSE "unknown"
      kept     == outcome \in {"logged", "ignored"}
      pend0    == IF needOpen THEN Extend(sink_pending, id, 0) ELSE sink_pending
      tmp1     == IF needOpen /\ segmentation_enabled
                  THEN TmpPathOf(segment_index) ELSE current_tmp_path
      final1   == IF needOpen /\ segmentation_enabled
                  THEN FinalPathOf(segment_index) ELSE current_final_path
      units1   == IF kept THEN segment_images + SegmentUnitsOf(tp) ELSE segment_images
      bytes1   == IF kept THEN segment_raw_bytes + SegmentBytesOf(tp, len)
                  ELSE segment_raw_bytes
  IN
  /\ fs' = IF needOpen THEN Extend(fs, TargetPath, id) ELSE fs
  /\ file_size' = IF needOpen THEN Extend(file_size, id, 0) ELSE file_size
  /\ sink_pending' = IF outcome = "logged" THEN [pend0 EXCEPT ![id] = @ + 1] ELSE pend0
  /\ IF outcome = "logged" /\ tp \in DynamicTfTypes
     THEN /\ dynamic' = ingest_tf_msg(dynamic, ts, transforms, tf_buffer_seconds)
          /\ ingest_ts' = ts
          /\ UNCHANGED <<static_edges, static_graph, resolved>>
     ELSE IF outcome = "logged" /\ tp \in StaticTfTypes
     THEN LET g == IngestStaticLoop(static_edges, static_graph, transforms) IN
          /\ static_edges' = g.static_edges
          /\ static_graph' = g.static_graph
          /\ UNCHANGED <<dynamic, resolved, ingest_ts>>
     ELSE UNCHANGED tfVars
  /\ nav_logged' = IF outcome = "logged" /\ tp \in NavTypes
                   THEN [pos |-> pos + 1, frame |-> frame,
                         poses |-> NavEmit(tp, tf_graph, ts, frame)]
                   ELSE nav_logged
  /\ IF outcome = "err"
     THEN /\ Abort
          /\ current_tmp_path' = tmp1
          /\ current_final_path' = final1
          /\ UNCHANGED <<kept_msgs, stats, segment_index, segment_images,
                         segment_raw_bytes, dropping, flush_q, histVars>>
     ELSE /\ UNCHANGED <<flush_tx_open, result_rx_open>>
          /\ kept_msgs' = IF kept THEN kept_msgs + 1 ELSE kept_msgs
          /\ stats' = IF ~kept THEN [stats EXCEPT !.skipped_type = @ + 1]
                      ELSE IF tp \in UnitTypes
                      THEN [stats EXCEPT ![StatField(tp)] = @ + 1, !.raw_bytes = @ + len]
                      ELSE [stats EXCEPT !.raw_bytes = @ + len]
          /\ IF RotationDue(units1, bytes1)
             THEN /\ SendJob(FlushJob(segment_index + 1, tmp1, final1, bytes1))
                  /\ dropping' = {id}
                  /\ rec' = {}
                  /\ segment_index' = segment_index + 1
                  /\ segment_images' = 0
                  /\ segment_raw_bytes' = 0
                  /\ current_tmp_path' = NoPath
                  /\ current_final_path' = NoPath
                  /\ pc' = "drop_rot"
             ELSE /\ rec' = {id}
                  /\ segment_images' = units1
                  /\ segment_raw_bytes' = bytes1
                  /\ current_tmp_path' = tmp1
                  /\ current_final_path' = final1
                  /\ pc' = "pass2"
                  /\ UNCHANGED <<segment_index, dropping, flush_q, histVars>>

\* (variant: a dry run goes on to the dispatch)
DryRunStops_Never == FALSE

\* `if options.dry_run { kept_msgs += 1; continue; }`
DryRunStops == dry_run

\* One message record of the second pass.
ProcessRecord ==
  /\ pc = "pass2"
  /\ pos < Len(chunks)
  /\ pos' = pos + 1
  /\ \E tp \in connections \cup {"unresolved"}, len \in 1..MaxPayload :
     \E payload \in PayloadsOf(tp), transforms \in TfMessagesOf(tp), frame \in NavFramesOf(tp) :
       LET msg_data == chunks[pos + 1]
           passes == TopicPasses(msg_data.topic) /\ TimePasses(ts_rel(msg_data.time))
       IN
       IF tp \notin connections
       THEN /\ stats' = [stats EXCEPT !.filtered_out = @ + 1]
            /\ UNCHANGED <<tfVars, nav_logged, pc, rec, dropping, kept_msgs, segVars, flush_tx_open,
                           result_rx_open, fileVars, flush_q, histVars>>
       ELSE IF ~passes
       THEN UNCHANGED <<tfVars, nav_logged, pc, rec, dropping, kept_msgs, stats, segVars, flush_tx_open,
                        result_rx_open, fileVars, flush_q, histVars>>
       ELSE IF DryRunStops
       THEN /\ kept_msgs' = kept_msgs + 1
            /\ UNCHANGED <<tfVars, nav_logged, pc, rec, dropping, stats, segVars, flush_tx_open,
                           result_rx_open, fileVars, flush_q, histVars>>
       ELSE Dispatch(tp, len, payload, ts_rel(msg_data.time), transforms, frame)
  /\ UNCHANGED <<optVars, passVars, singleVars, tmp_dir_created, result_q, completed_jobs,
                 total_jobs, workVars>>

\* (variant: dropping a recording does not wait for its sink)
DropRec_NoWait ==
  /\ pc \in {"drop_rot", "drop_last"}
  /\ dropping' = {}
  /\ pc' = IF pc = "drop_rot" THEN "pass2" ELSE "close"
  /\ UNCHANGED <<optVars, passVars, tfVars, nav_logged, singleVars, pos, rec, segVars,
                 kept_msgs, stats, tmp_dir_created, flush_q, flush_tx_open, result_q,
                 result_rx_open, completed_jobs, total_jobs, workVars, fileVars, histVars>>

\* Dropping a RecordingStream blocks until its sink has written everything.
DropRec ==
  /\ pc \in {"drop_rot", "drop_last"}
  /\ \A id \in dropping : sink_pending[id] = 0
  /\ dropping' = {}
  /\ pc' = IF pc = "drop_rot" THEN "pass2" ELSE "close"
  /\ UNCHANGED <<optVars, passVars, tfVars, nav_logged, singleVars, pos, rec, segVars, kept_msgs, stats, tmp_dir_created,
                 flush_q, flush_tx_open, result_q, result_rx_open, completed_jobs,
                 total_jobs, workVars, fileVars, histVars>>

\* (variant: a final job only for a full segment)
FinalJobDue_Full == seg_size > 0 /\ segment_images >= seg_size

\* The last open segment gets a job only under this condition.
FinalJobDue == segment_images > 0

\* End of the second pass.
EndOfPass2 ==
  /\ pc = "pass2"
  /\ pos = Len(chunks)
  /\ IF dry_run
     THEN /\ pc' = "done"
          /\ flush_tx_open' = FALSE
          /\ result_rx_open' = FALSE
          /\ UNCHANGED <<rec, dropping, flush_q, histVars>>
     ELSE IF segmentation_enabled
     THEN /\ UNCHANGED <<flush_tx_open, result_rx_open>>
          /\ IF rec # {}
             THEN /\ IF FinalJobDue
                     THEN SendJob(FlushJob(segment_index + 1, current_tmp_path, current_final_path,
                                          segment_raw_bytes))
                     ELSE UNCHANGED <<flush_q, histVars>>
                  /\ dropping' = rec
                  /\ rec' = {}
                  /\ pc' = "drop_last"
             ELSE /\ pc' = "close"
                  /\ UNCHANGED <<rec, dropping, flush_q, histVars>>
     ELSE /\ UNCHANGED <<flush_q, histVars>>
          /\ IF rec # {}
             THEN /\ pc' = "single_flush"
                  /\ dropping' = rec
                  /\ rec' = {}
                  /\ UNCHANGED <<flush_tx_open, result_rx_open>>
             ELSE /\ pc' = "done"
                  /\ flush_tx_open' = FALSE
                  /\ result_rx_open' = FALSE
                  /\ UNCHANGED <<rec, dropping>>
  /\ UNCHANGED <<optVars, passVars, tfVars, nav_logged, singleVars, pos, segVars, kept_msgs, stats, tmp_dir_created,
                 result_q, completed_jobs, total_jobs, workVars, fileVars>>

\* (variant: the last open segment is not counted)
TotalJobs_Rotated == segment_index

\* Number of results the producer waits for.
TotalJobs == segment_index + (IF segment_images > 0 THEN 1 ELSE 0)

\* drop(flush_tx) and the start of the wait.
CloseQueue ==
  /\ pc = "close"
  /\ flush_tx_open' = FALSE
  /\ completed_jobs' = 0
  /\ total_jobs' = TotalJobs
  /\ pc' = "drain"
  /\ UNCHANGED <<optVars, passVars, tfVars, nav_logged, singleVars, pos, rec, dropping, segVars, kept_msgs, stats,
                 tmp_dir_created, flush_q, result_q, result_rx_open, workVars,
                 fileVars, histVars>>

\* One iteration of the result loop: result_rx.recv() blocks while the channel
\* is empty; it cannot report a closed channel because the producer itself
\* holds result_tx.  Ok(Ok(_)) and Ok(Err(_)) are both counted.
DrainRecv ==
  /\ pc = "drain"
  /\ completed_jobs < total_jobs
  /\ result_q # <<>>
  /\ result_q' = Tail(result_q)
  /\ completed_jobs' = completed_jobs + 1
  /\ UNCHANGED <<optVars, passVars, tfVars, nav_logged, singleVars, pos, pc, rec, dropping, segVars, kept_msgs, stats,
                 tmp_dir_created, flush_q, flush_tx_open, result_rx_open,
                 total_jobs, workVars, fileVars, histVars>>

DrainDone ==
  /\ pc = "drain"
  /\ ~(completed_jobs < total_jobs)
  /\ pc' = "join"
  /\ UNCHANGED <<optVars, passVars, tfVars, nav_logged, singleVars, pos, rec, dropping, segVars, kept_msgs, stats,
                 tmp_dir_created, flush_q, flush_tx_open, result_q,
                 result_rx_open, completed_jobs, total_jobs, workVars, fileVars,
                 histVars>>

\* worker.join() for every worker, then the summary and Ok(()).
JoinWorkers ==
  /\ pc = "join"
  /\ \A w \in Spawned : w_pc[w] = "exited"
  /\ pc' = "done"
  /\ result_rx_open' = FALSE
  /\ UNCHANGED <<optVars, passVars, tfVars, nav_logged, singleVars, pos, rec, dropping, segVars, kept_msgs, stats,
                 tmp_dir_created, flush_q, flush_tx_open, result_q,
                 completed_jobs, total_jobs, workVars, fileVars, histVars>>

\* Single output: flush_recording with no timeout configured waits for the
\* background drop of the recording, then convert_bag returns Ok(()).
FlushRecording ==
  /\ pc = "single_flush"
  /\ \A id \in dropping : sink_pending[id] = 0
  /\ dropping' = {}
  /\ pc' = "done"
  /\ flush_tx_open' = FALSE
  /\ result_rx_open' = FALSE
  /\ UNCHANGED <<optVars, passVars, tfVars, nav_logged, singleVars, pos, rec, segVars, kept_msgs, stats, tmp_dir_created,
                 flush_q, result_q, completed_jobs, total_jobs, workVars,
                 fileVars, histVars>>

\* ------------------------------------------------------------ sink writer
\* The writer thread of a recording's file sink appends one logged chunk to
\* the file the recording was opened on (whatever name it has by now).
WriterWrite ==
  /\ \E id \in DOMAIN sink_pending :
       /\ sink_pending[id] > 0
       /\ sink_pending' = [sink_pending EXCEPT ![id] = @ - 1]
       /\ file_size' = [file_size EXCEPT ![id] = @ + 1]
  /\ UNCHANGED <<optVars, passVars, tfVars, nav_logged, singleVars, pos, pc, rec, dropping, segVars, kept_msgs, stats,
                 tmp_dir_created, flush_q, flush_tx_open, result_q,
                 result_rx_open, completed_jobs, total_jobs, workVars, fs,
                 histVars>>

\* ----------------------------------------------------------- flush worker
\* (variant: the job stays in the channel)
Dequeue_Peek(q) == q

\* What a successful recv leaves in the channel.
Dequeue(q) == Tail(q)

\* rx.recv() delivering a job.
WorkerRecv(w) ==
  /\ w_pc[w] = "recv"
  /\ flush_q # <<>>
  /\ w_job' = [w_job EXCEPT ![w] = Head(flush_q)]
  /\ flush_q' = Dequeue(flush_q)
  /\ w_last_size' = [w_last_size EXCEPT ![w] = 0]
  /\ w_stable' = [w_stable EXCEPT ![w] = 0]
  /\ w_pc' = [w_pc EXCEPT ![w] = "poll"]
  /\ recv_count' = [recv_count EXCEPT ![Head(flush_q).part_index] = @ + 1]
  /\ UNCHANGED <<optVars, passVars, tfVars, nav_logged, singleVars, pos, pc, rec, dropping, segVars, kept_msgs, stats,
                 tmp_dir_created, flush_tx_open, result_q, result_rx_open,
                 completed_jobs, total_jobs, fileVars, submitted, result_of>>

\* rx.recv() failing: the channel is empty and every sender is gone.
WorkerExit(w) ==
  /\ w_pc[w] = "recv"
  /\ flush_q = <<>>
  /\ ~flush_tx_open
  /\ w_pc' = [w_pc EXCEPT ![w] = "exited"]
  /\ UNCHANGED <<optVars, passVars, tfVars, nav_logged, singleVars, pos, pc, rec, dropping, segVars, kept_msgs, stats,
                 tmp_dir_created, flush_q, flush_tx_open, result_q,
                 result_rx_open, completed_jobs, total_jobs, w_job, w_last_size,
                 w_stable, fileVars, histVars>>

\* (variant: the loop counts polls, stable or not)
WorkerPoll_CountsPolls(w) ==
  /\ w_pc[w] = "poll"
  /\ w_stable[w] < max_stable_checks
  /\ w_stable' = [w_stable EXCEPT ![w] = @ + 1]
  /\ w_last_size' = [w_last_size EXCEPT ![w] =
                       IF w_job[w].tmp_path \in DOMAIN fs
                       THEN file_size[fs[w_job[w].tmp_path]] ELSE @]
  /\ UNCHANGED <<optVars, passVars, tfVars, nav_logged, singleVars, pos, pc, rec, dropping,
                 segVars, kept_msgs, stats, tmp_dir_created, flush_q, flush_tx_open,
                 result_q, result_rx_open, completed_jobs, total_jobs, w_pc, w_job,
                 fileVars, histVars>>

\* One iteration of the stability loop: sleep, then look at the temp file.
WorkerPoll(w) ==
  /\ w_pc[w] = "poll"
  /\ w_stable[w] < max_stable_checks
  /\ IF w_job[w].tmp_path \in DOMAIN fs
     THEN LET size == file_size[fs[w_job[w].tmp_path]] IN
          IF size = w_last_size[w]
          THEN /\ w_stable' = [w_stable EXCEPT ![w] = @ + 1]
               /\ UNCHANGED w_last_size
          ELSE /\ w_stable' = [w_stable EXCEPT ![w] = 0]
               /\ w_last_size' = [w_last_size EXCEPT ![w] = size]
     ELSE /\ w_stable' = [w_stable EXCEPT ![w] = 0]
          /\ UNCHANGED w_last_size
  /\ UNCHANGED <<optVars, passVars, tfVars, nav_logged, singleVars, pos, pc, rec, dropping, segVars, kept_msgs, stats,
                 tmp_dir_created, flush_q, flush_tx_open, result_q,
                 result_rx_open, completed_jobs, total_jobs, w_pc, w_job,
                 fileVars, histVars>>

\* (variant: the worker leaves its loop when the closure failed)
AfterJob_StopOnErr(ok) == IF ok THEN "recv" ELSE "exited"

\* Where the worker continues after sending the result of a job.
AfterJob(ok) == "recv"

\* What the worker does with the outcome of the closure: tx.send(res), the
\* send error being ignored when the receiver is gone.
SendResult(job, outcome) ==
  /\ result_q' = IF result_rx_open
                 THEN Append(result_q, [part_index |-> job.part_index, ok |-> outcome = "ok"])
                 ELSE result_q
  /\ result_of' = [result_of EXCEPT ![job.part_index] = Append(@, outcome)]

\* std::fs::rename(tmp, final) once the loop has ended, then the result.
\* The rename fails when the temp name is missing and may fail for reasons of
\* the file system (the final directory, permissions, ...).
WorkerRename(w) ==
  /\ w_pc[w] = "poll"
  /\ ~(w_stable[w] < max_stable_checks)
  /\ \E io_ok \in BOOLEAN :
       LET job == w_job[w]
           ok  == io_ok /\ job.tmp_path \in DOMAIN fs
       IN
       /\ fs' = IF ok
                THEN Extend(Remove(fs, job.tmp_path), job.final_path, fs[job.tmp_path])
                ELSE fs
       /\ SendResult(job, IF ok THEN "ok" ELSE "err")
       /\ w_pc' = [w_pc EXCEPT ![w] = AfterJob(ok)]
  /\ w_job' = [w_job EXCEPT ![w] = NoJob]
  /\ UNCHANGED <<optVars, passVars, tfVars, nav_logged, singleVars, pos, pc, rec, dropping, segVars, kept_msgs, stats,
                 tmp_dir_created, flush_q, flush_tx_open, result_rx_open,
                 completed_jobs, total_jobs, w_last_size, w_stable, file_size,
                 sink_pending, submitted, recv_count>>

\* ------------------------------------------------------------------- spec
Next ==
  \/ Validate
  \/ ProcessRecord
  \/ DropRec
  \/ EndOfPass2
  \/ CloseQueue
  \/ DrainRecv
  \/ DrainDone
  \/ JoinWorkers
  \/ FlushRecording
  \/ WriterWrite
  \/ \E w \in Workers : WorkerRecv(w)
  \/ \E w \in Workers : WorkerExit(w)
  \/ \E w \in Workers : WorkerPoll(w)
  \/ \E w \in Workers : WorkerRename(w)

Spec == Init /\ [][Next]_vars

SpecFlush == InitFlush /\ [][Next]_vars


\* Runs that write segments into the shared temp directory, from any of the
\* input paths; single-output runs for comparison.
InitTmpDir ==
  /\ connections \in FlushContainers
  /\ bag_path \in Bags
  /\ flush_timeout_secs = 0
  /\ segment_size \in {{}} \cup {{k} : k \in 1..MaxSegSize}
  /\ segment_bytes = {}
  /\ flush_workers = 1
  /\ dry_run = FALSE
  /\ DefaultFilters
  /\ tf_buffer_seconds = PipelineBuffer
  /\ chunks \in PipelineChunks
  /\ InitLocals

SpecTmpDir == InitTmpDir /\ [][Next]_vars

\* ------------------------------------------- the graph across the segments
\* Runs of three records over images, transforms and poses, in one output or
\* in segments of one image.
GraphContainers ==
  {{"sensor_msgs/Image", "tf2_msgs/TFMessage", "tf2_msgs/TFMessageStatic",
    "geometry_msgs/PoseStamped"}}

GraphChunks == {[i \in 1..GraphRecords |-> MessageData("/a", 1)]}

InitGraphRun ==
  /\ connections \in GraphContainers
  /\ bag_path = PipelineBag
  /\ flush_timeout_secs = 0
  /\ segment_size \in {{}, {1}}
  /\ segment_bytes = {}
  /\ flush_workers = 1
  /\ dry_run = FALSE
  /\ DefaultFilters
  /\ tf_buffer_seconds = PipelineBuffer
  /\ chunks \in GraphChunks
  /\ InitLocals

SpecGraphRun == InitGraphRun /\ [][Next]_vars

\* ----------------------------------------------- the flush stage, scheduled
\* Segmented and single-output runs of one input with one worker.
InitFlushStage ==
  /\ connections \in FlushContainers
  /\ bag_path = PipelineBag
  /\ flush_timeout_secs = 0
  /\ segment_size \in {{}} \cup {{k} : k \in 1..MaxSegSize}
  /\ segment_bytes = {}
  /\ flush_workers = 1
  /\ dry_run = FALSE
  /\ DefaultFilters
  /\ tf_buffer_seconds = PipelineBuffer
  /\ chunks \in PipelineChunks
  /\ InitLocals

\* The temp directory is shared (std::env::temp_dir): something else removes
\* the temp file of a submitted job before the worker has renamed it.
TmpVanishes ==
  /\ \E i \in 1..Len(submitted) :
       /\ submitted[i].tmp_path \in DOMAIN fs
       /\ fs' = Remove(fs, submitted[i].tmp_path)
  /\ UNCHANGED <<optVars, passVars, tfVars, nav_logged, singleVars, pos, pc, rec,
                 dropping, segVars, kept_msgs, stats, tmp_dir_created, flush_q,
                 flush_tx_open, result_q, result_rx_open, completed_jobs,
                 total_jobs, workVars, file_size, sink_pending, histVars>>

NextFlushStage == Next \/ TmpVanishes

\* The steps of the producer thread.
ProducerSteps ==
  \/ Validate
  \/ ProcessRecord
  \/ DropRec
  \/ EndOfPass2
  \/ CloseQueue
  \/ DrainRecv
  \/ DrainDone
  \/ JoinWorkers
  \/ FlushRecording

\* The steps of the flush worker w.
WorkerSteps(w) == WorkerRecv(w) \/ WorkerExit(w) \/ WorkerPoll(w) \/ WorkerRename(w)

\* Every thread is scheduled again and again: the producer, the writer of
\* the sink, which so comes to the end of what it has to write, and each
\* worker.  Nothing is assumed of what happens to the temp directory.
FairThreads ==
  /\ WF_vars(ProducerSteps)
  /\ WF_vars(WriterWrite)
  /\ \A w \in Workers : WF_vars(WorkerSteps(w))

SpecFlushStage == InitFlushStage /\ [][NextFlushStage]_vars

LiveFlushStage == SpecFlushStage /\ FairThreads

\* The same runs with every temp file left in place.
LiveFlushStageKept == InitFlushStage /\ [][Next]_vars /\ FairThreads

\* ------------------------------------------ flush_recording, step by step
\* Single-output runs, with and without a flush timeout.
InitSingleFlush ==
  /\ connections \in FlushContainers
  /\ bag_path = PipelineBag
  /\ flush_timeout_secs \in 0..MaxTimeout
  /\ segment_size = {}
  /\ segment_bytes = {}
  /\ flush_workers = 1
  /\ dry_run = FALSE
  /\ DefaultFilters
  /\ tf_buffer_seconds = PipelineBuffer
  /\ chunks \in PipelineChunks
  /\ InitLocals

\* (variant: the wait is never bounded)
TimeoutSet_Never == FALSE

\* `if timeout_secs == 0 { rx.recv() } else if rx.recv_timeout(..)`
TimeoutSet == flush_timeout_secs > 0

\* flush_recording up to its wait: the monitor thread and the thread that
\* drops the recording are spawned.
FlushRecordingSpawn ==
  /\ pc = "single_flush"
  /\ monitor_pc' = "loop"
  /\ pc' = "single_wait"
  /\ UNCHANGED <<optVars, passVars, tfVars, nav_logged, stop_flag, flush_done,
                 flush_warned, pos, rec, dropping, segVars, kept_msgs, stats,
                 tmp_dir_created, flush_q, flush_tx_open, result_q, result_rx_open,
                 completed_jobs, total_jobs, workVars, fileVars, histVars>>

\* The spawned thread: drop(rec) returns once the sink has written
\* everything, then tx.send(()).  Nothing stops this thread: it may run on
\* after flush_recording has returned.
WriterDropDone ==
  /\ monitor_pc # "unspawned"
  /\ dropping # {}
  /\ \A id \in dropping : sink_pending[id] = 0
  /\ dropping' = {}
  /\ flush_done' = TRUE
  /\ UNCHANGED <<optVars, passVars, tfVars, nav_logged, stop_flag, monitor_pc,
                 flush_warned, pos, pc, rec, segVars, kept_msgs, stats,
                 tmp_dir_created, flush_q, flush_tx_open, result_q, result_rx_open,
                 completed_jobs, total_jobs, workVars, fileVars, histVars>>

\* rx.recv() or rx.recv_timeout(..) returning Ok, then stop_flag.store(true).
FlushRecordingRecv ==
  /\ pc = "single_wait"
  /\ flush_done
  /\ stop_flag' = TRUE
  /\ pc' = "single_join"
  /\ UNCHANGED <<optVars, passVars, tfVars, nav_logged, monitor_pc, flush_done,
                 flush_warned, pos, rec, dropping, segVars, kept_msgs, stats,
                 tmp_dir_created, flush_q, flush_tx_open, result_q, result_rx_open,
                 completed_jobs, total_jobs, workVars, fileVars, histVars>>

\* rx.recv_timeout(..) returning Err: the warning, then stop_flag.store(true).
FlushRecordingTimeout ==
  /\ pc = "single_wait"
  /\ TimeoutSet
  /\ ~flush_done
  /\ flush_warned' = TRUE
  /\ stop_flag' = TRUE
  /\ pc' = "single_join"
  /\ UNCHANGED <<optVars, passVars, tfVars, nav_logged, monitor_pc, flush_done,
                 pos, rec, dropping, segVars, kept_msgs, stats,
                 tmp_dir_created, flush_q, flush_tx_open, result_q, result_rx_open,
                 completed_jobs, total_jobs, workVars, fileVars, histVars>>

\* The monitor thread: `while !monitor_flag.load(..)` ends once the flag is set.
MonitorStop ==
  /\ monitor_pc = "loop"
  /\ stop_flag
  /\ monitor_pc' = "exited"
  /\ UNCHANGED <<optVars, passVars, tfVars, nav_logged, stop_flag, flush_done,
                 flush_warned, pos, pc, rec, dropping, segVars, kept_msgs, stats,
                 tmp_dir_created, flush_q, flush_tx_open, result_q, result_rx_open,
                 completed_jobs, total_jobs, workVars, fileVars, histVars>>

\* monitor_handle.join(), the end of flush_recording and Ok(()) of convert_bag.
FlushRecordingJoin ==
  /\ pc = "single_join"
  /\ monitor_pc = "exited"
  /\ pc' = "done"
  /\ flush_tx_open' = FALSE
  /\ result_rx_open' = FALSE
  /\ UNCHANGED <<optVars, passVars, tfVars, nav_logged, singleVars, pos, rec,
                 dropping, segVars, kept_msgs, stats, tmp_dir_created, flush_q,
                 result_q, completed_jobs, total_jobs, workVars, fileVars, histVars>>

\* The steps of the producer inside flush_recording.
FlushRecordingSteps ==
  FlushRecordingSpawn \/ FlushRecordingRecv \/ FlushRecordingTimeout \/ FlushRecordingJoin

NextSingleFlush ==
  \/ Validate
  \/ ProcessRecord
  \/ EndOfPass2
  \/ WriterWrite
  \/ WriterDropDone
  \/ FlushRecordingSpawn
  \/ FlushRecordingRecv
  \/ FlushRecordingTimeout
  \/ MonitorStop
  \/ FlushRecordingJoin
  \/ \E w \in Workers : WorkerExit(w)

SpecSingleFlush == InitSingleFlush /\ [][NextSingleFlush]_vars

\* The producer and the monitor are threads the scheduler runs; nothing is
\* assumed of the writer.
LiveSingleFlush ==
  /\ SpecSingleFlush
  /\ WF_vars(FlushRecordingSteps)
  /\ WF_vars(MonitorStop)

SpecFilter == InitFilter /\ [][Next]_vars

\* ------------------------------------------- the transform graph on its own
\* Everything of convert_bag but the transform graph.
pipeVars == <<optVars, passVars, nav_logged, singleVars, pos, pc, rec, dropping, segVars, kept_msgs,
              stats, tmp_dir_created, flush_q, flush_tx_open, result_q,
              result_rx_open, completed_jobs, total_jobs, workVars, fileVars,
              histVars>>

TfTranslations == {<<1, 0, 0>>, <<0, 1, 0>>}

\* Parsed /tf_static messages: up to MaxTransforms transforms between any two
\* frames (a frame to itself included), identity rotation.
StaticTransforms ==
  {Transform(p, c, tr, 0) : p \in Frames, c \in Frames, tr \in TfTranslations}

StaticMessages == UNION {[1..n -> StaticTransforms] : n \in 0..MaxTransforms}

\* Translations of /tf transforms are multiples of TfScale, which every
\* difference of two sample times divides: the quotient of the linear
\* interpolation is then exact in integers, as it is (up to rounding) in f64.
RECURSIVE Factorial(_)
Factorial(n) == IF n <= 1 THEN 1 ELSE n * Factorial(n - 1)

TfScale == Factorial(MaxTfTime)

DynamicTranslations == {<<TfScale, 0, 0>>, <<0, TfScale, 0>>}

\* Parsed /tf messages: transforms on the edges 1 -> 2, 2 -> 1 and 2 -> 3.
DynamicKeys == {<<1, 2>>, <<2, 1>>, <<2, 3>>}

DynamicTransforms ==
  {Transform(k[1], k[2], tr, 0) : k \in DynamicKeys, tr \in DynamicTranslations}

DynamicMessages == UNION {[1..n -> DynamicTransforms] : n \in 0..MaxTransforms}

RECURSIVE SumLen(_, _)
SumLen(f, keys) ==
  IF keys = {} THEN 0
  ELSE LET k == CHOOSE x \in keys : TRUE IN Len(f[k]) + SumLen(f, keys \ {k})

InitTf ==
  /\ connections = TfTypes
  /\ bag_path = PipelineBag
  /\ flush_timeout_secs = 0
  /\ segment_size = {}
  /\ segment_bytes = {}
  /\ flush_workers = 1
  /\ dry_run = FALSE
  /\ DefaultFilters
  /\ chunks = <<>>
  /\ InitLocals

InitTfStatic == InitTf /\ tf_buffer_seconds = PipelineBuffer

InitTfDynamic == InitTf /\ tf_buffer_seconds \in 0..MaxBuffer

\* TfGraph::ingest_tf_static_msg on a message that parses.  The graph is
\* built before it is queried: no ingest follows the recorded query.
IngestTfStaticMsgFrom(messages) ==
  /\ resolved = NoQuery
  /\ \E transforms \in messages :
       LET g == IngestStaticLoop(static_edges, static_graph, transforms) IN
       /\ static_edges' = g.static_edges
       /\ static_graph' = g.static_graph
  /\ UNCHANGED <<pipeVars, dynamic, resolved, ingest_ts>>

IngestTfStaticMsg == IngestTfStaticMsgFrom(StaticMessages)

\* /tf_static messages of the queried graphs: one transform, 1 -> 2 or 1 -> 3.
QueriedStaticMessages ==
  {<<Transform(1, c, <<1, 0, 0>>, 0)>> : c \in {2, 3}}

IngestTfStaticMsgQueried == IngestTfStaticMsgFrom(QueriedStaticMessages)

\* TfGraph::ingest_tf_msg on a message that parses, the graph holding at most
\* `cap` samples with it.
IngestTfMsgUpTo(cap) ==
  /\ resolved = NoQuery
  /\ \E ts \in 0..MaxTfTime, transforms \in DynamicMessages :
       /\ SumLen(dynamic, DOMAIN dynamic) + Len(transforms) <= cap
       /\ dynamic' = ingest_tf_msg(dynamic, ts, transforms, tf_buffer_seconds)
       /\ ingest_ts' = ts
  /\ UNCHANGED <<pipeVars, static_edges, static_graph, resolved>>

IngestTfMsg == IngestTfMsgUpTo(MaxSamples)

IngestTfMsgQueried == IngestTfMsgUpTo(MaxQuerySamples)

\* TfGraph::resolve, its arguments and result recorded.
ResolveCall ==
  /\ resolved = NoQuery
  /\ \E target \in Frames, source \in Frames, at_time \in 0..MaxTfTime, mode \in TfModes :
       resolved' = [target |-> target, source |-> source, at_time |-> at_time,
                    mode |-> mode,
                    result |-> resolve(tf_graph, target, source, at_time, mode)]
  /\ UNCHANGED <<pipeVars, dynamic, static_edges, static_graph, ingest_ts>>

NextTfStatic == IngestTfStaticMsg \/ ResolveCall

SpecTfStatic == InitTfStatic /\ [][NextTfStatic]_vars

NextTfDynamic == IngestTfMsg

SpecTfDynamic == InitTfDynamic /\ [][NextTfDynamic]_vars

\* Queries on a graph of dynamic edges and up to two static edges.
NextTfResolve == IngestTfStaticMsgQueried \/ IngestTfMsgQueried \/ ResolveCall

SpecTfResolve == InitTfDynamic /\ [][NextTfResolve]_vars

TypeOK ==
  /\ pc \in {"validate", "pass2", "drop_rot", "drop_last", "close",
             "drain", "join", "single_flush", "single_wait", "single_join",
             "done", "error"}
  /\ pos \in 0..MaxRecords
  /\ \A w \in Workers : w_stable[w] \in 0..max_stable_checks


\* ------------------------------------------------------ derived quantities
IsFinalPath(p) == p.dir = "out" /\ p.part # <<>>
IsTmpPath(p)   == p.dir = "tmp"

Parts == {submitted[i].part_index : i \in 1..Len(submitted)}

UnitsKept == stats.images + stats.compressed_images + stats.pointclouds
             + stats.laserscans + stats.gps_fixes

InQueue(part) == Cardinality({i \in 1..Len(flush_q) : flush_q[i].part_index = part})
Holders(part) == Cardinality({w \in Workers : w_pc[w] = "poll" /\ w_job[w].part_index = part})
Answered      == {part \in Parts : Len(result_of[part]) >= 1}

RECURSIVE DigitsValue(_)
DigitsValue(ds) ==
  IF ds = <<>> THEN 0 ELSE 10 * DigitsValue(SubSeq(ds, 1, Len(ds) - 1)) + ds[Len(ds)]

RECURSIVE SumJobBytes(_)
SumJobBytes(jobs) ==
  IF jobs = <<>> THEN 0 ELSE Head(jobs).raw_bytes_in_part + SumJobBytes(Tail(jobs))

Ceil(m, k) == (m + k - 1) \div k

SegmentedDone == pc = "done" /\ segmentation_enabled

\* ------------------------------------------------------------------ claims

\* C1: atomic publication.  A file reachable under a final part name never
\* has data of its recording still waiting to be written: the worker does
\* not rename temp to final while the writer has data left for it.
C1_AtomicPublication ==
  \A p \in DOMAIN fs : IsFinalPath(p) => sink_pending[fs[p]] = 0

\* C2: end of a segmented run.  The producer waits with the job channel
\* closed, for a number of results equal to the number of jobs sent; it joins
\* only after that many results; and when convert_bag has returned Ok no job
\* is queued or held by a worker and every spawned worker has terminated.
C2_DrainThenJoin ==
  /\ pc \in {"drain", "join"} \/ SegmentedDone
       => ~flush_tx_open /\ total_jobs = Len(submitted)
  /\ pc = "join" \/ SegmentedDone
       => /\ completed_jobs = Len(submitted)
          /\ flush_q = <<>>
          /\ \A w \in Workers : w_pc[w] # "poll"
          /\ \A part \in Parts : Len(result_of[part]) = 1
  /\ SegmentedDone => \A w \in Spawned : w_pc[w] = "exited"

C2_Witness ==
  /\ SegmentedDone
  /\ flush_workers = 2
  /\ segment_index = 0 /\ segment_images > 0
  /\ Len(submitted) = 1
  /\ completed_jobs = 1
  /\ w_pc[1] = "exited" /\ w_pc[2] = "exited"

\* C3: every job sent is at any moment in exactly one place - in the channel,
\* held by exactly one worker, or answered by exactly one send on the result
\* channel; it is received at most once; and while the producer holds the
\* receiver every result sent is in the result channel or already counted.
C3_ExactlyOnce ==
  /\ \A part \in Parts :
       /\ InQueue(part) + Holders(part) + Len(result_of[part]) = 1
       /\ recv_count[part] = Holders(part) + Len(result_of[part])
  /\ result_rx_open => Len(result_q) + completed_jobs = Cardinality(Answered)
  /\ \A i \in 1..Len(result_q) : result_q[i].part_index \in Answered

C3_Witness ==
  /\ flush_workers = 2
  /\ Len(submitted) = 2
  /\ w_pc[1] = "poll" /\ w_pc[2] = "poll"
  /\ w_job[1].part_index # w_job[2].part_index

C5_DecodeFailureSkipped ==
  pc = "error" => pos = 0

C7_RotationIsOr ==
  [][(pc = "pass2" /\ pos' = pos + 1 /\ segmentation_enabled /\ pc' # "error")
       => LET rotated == Len(submitted') = Len(submitted) + 1
              units   == IF rotated THEN segment_images + (UnitsKept' - UnitsKept)
                         ELSE segment_images'
              bytes   == IF rotated THEN submitted'[Len(submitted')].raw_bytes_in_part
                         ELSE segment_raw_bytes'
          IN  /\ rotated <=>
                   (\/ (IsSome(segment_size) /\ units >= Unwrap(segment_size))
                    \/ (IsSome(segment_bytes) /\ bytes >= Unwrap(segment_bytes)))
              /\ rotated => rec' = {} /\ dropping' # {}]_vars

C7_Witness ==
  /\ pc = "drop_rot"
  /\ segment_size = {2} /\ segment_bytes = {1}
  /\ Len(submitted) = 1
  /\ submitted[1].raw_bytes_in_part = 1
  /\ UnitsKept = 1

\* C8: every kept record adds its payload length to the byte counter of the
\* segment it is written to: the bytes of the closed segments plus those of
\* the open one are the bytes of all kept records.
C8_AllKeptBytesCounted ==
  (segmentation_enabled /\ pc \in {"pass2", "drop_rot"})
    => SumJobBytes(submitted) + segment_raw_bytes = stats.raw_bytes

\* C9: when a segmented run has ended, every temp file that was opened and
\* written has a FlushJob.
C9_WrittenSegmentFlushed ==
  SegmentedDone =>
    \A p \in DOMAIN fs :
      (IsTmpPath(p) /\ file_size[fs[p]] > 0)
        => \E i \in 1..Len(submitted) : submitted[i].tmp_path = p

\* C10: the i-th job submitted has part_index i and the final path
\* "<stem>_part<i as 4 digits>.<ext>"; no two jobs share a final or a temp
\* path; and the wait ends on the count of results, whatever their order.
C10_JobsNumbered ==
  /\ \A i \in 1..Len(submitted) :
       /\ submitted[i].part_index = i
       /\ submitted[i].final_path.stem = <<"out", "_part">>
       /\ submitted[i].final_path.ext = "rrd"
       /\ Len(submitted[i].final_path.part) = 4
       /\ DigitsValue(submitted[i].final_path.part) = i
       /\ DigitsValue(submitted[i].tmp_path.part) = i
  /\ \A i, j \in 1..Len(submitted) :
       i # j => /\ submitted[i].final_path # submitted[j].final_path
                /\ submitted[i].tmp_path # submitted[j].tmp_path
  /\ pc = "join" => completed_jobs = Len(submitted)

C10_Witness ==
  /\ Len(submitted) = 2
  /\ pc = "drain"
  /\ Len(result_q) = 2
  /\ result_q[1].part_index = 2
  /\ result_q[2].part_index = 1

\* ------------------------------------------- claims on filters and options
\* session_start_time and the filter condition as the specification words
\* them, independent of the fold of the first pass.
SessionStart ==
  IF chunks = <<>> THEN 0
  ELSE CHOOSE t \in {chunks[i].time : i \in DOMAIN chunks} :
         \A i \in DOMAIN chunks : t <= chunks[i].time

FilterWanted(m) ==
  LET relative_time == m.time - SessionStart IN
  /\ (include_topics = {} \/ m.topic \in include_topics)
  /\ m.topic \notin exclude_topics
  /\ (start_time = {} \/ Unwrap(start_time) <= relative_time)
  /\ (end_time = {} \/ relative_time <= Unwrap(end_time))

\* C11: a record of the second pass whose connection resolves goes on to
\* processing (it is counted as kept or as skipped, or its decoding ends the
\* run) iff its topic passes the include and exclude sets and its relative
\* time lies in [start, end], both ends included, a missing bound being open.
C11_FilterInclusive ==
  [][(pc = "pass2" /\ pos' = pos + 1 /\ stats'.filtered_out = stats.filtered_out)
       => LET processed == \/ kept_msgs' = kept_msgs + 1
                           \/ stats'.skipped_type = stats.skipped_type + 1
                           \/ pc' = "error"
          IN  processed <=> FilterWanted(chunks[pos + 1])]_vars

C11_Witness ==
  /\ pos = 1 /\ kept_msgs = 1
  /\ include_topics = {"/a"} /\ exclude_topics = {}
  /\ start_time = {1} /\ end_time = {1}
  /\ chunks[1].topic = "/a"
  /\ chunks[1].time - bag_start_s = 1

\* C12: after the first pass bag_start_s is the minimum time over all message
\* records and total_msgs their number, whatever the include and exclude sets
\* and the window are: the value is a function of the stream alone, so runs
\* that differ only in their filters agree on it and on every relative time.
C12_StartIndependentOfFilters ==
  (pc # "validate" /\ tmp_dir_created)
    => /\ bag_start_s = SessionStart
       /\ total_msgs = Len(chunks)
       /\ \A i \in DOMAIN chunks : ts_rel(chunks[i].time) = chunks[i].time - SessionStart

C12_Witness ==
  /\ pc = "pass2"
  /\ include_topics = {"/a"}
  /\ Len(chunks) = 2
  /\ chunks[1] = MessageData("/a", 2)
  /\ chunks[2] = MessageData("/b", 1)
  /\ bag_start_s = 1

\* C13: in a dry run a record whose connection resolves is counted as kept
\* iff it passes the filters, and nothing else ever happens: no recording is
\* opened, no file exists, nothing is handed to a sink, no job is sent, the
\* transform graph stays empty, no counter of a decoder moves and the run
\* does not end with an error.
C13_DryRunOnlyCounts ==
  /\ [](dry_run =>
          /\ rec = {} /\ dropping = {}
          /\ fs = << >> /\ sink_pending = << >> /\ file_size = << >>
          /\ submitted = <<>> /\ flush_q = <<>>
          /\ dynamic = << >> /\ static_edges = << >> /\ static_graph = << >>
          /\ segment_index = 0 /\ segment_images = 0 /\ segment_raw_bytes = 0
          /\ [stats EXCEPT !.filtered_out = 0] = StatsZero
          /\ pc \in {"validate", "pass2", "done"}
          /\ kept_msgs + stats.filtered_out <= pos)
  /\ [][(dry_run /\ pos' = pos + 1 /\ stats'.filtered_out = stats.filtered_out)
          => /\ FilterWanted(chunks[pos + 1]) => kept_msgs' = kept_msgs + 1
             /\ ~FilterWanted(chunks[pos + 1]) => kept_msgs' = kept_msgs]_vars

C13_Witness ==
  /\ dry_run /\ pc = "done"
  /\ Len(chunks) = 2 /\ pos = 2
  /\ kept_msgs = 1
  /\ stats.filtered_out = 0
  /\ exclude_topics = {"/a"}

\* C14: with segment_size = Some(0), segment_bytes = Some(0) or
\* flush_workers = 0, in a dry run too, convert_bag ends with an error before
\* the second pass: no worker is spawned, the temp directory is not created,
\* no recording is opened and no file is written.
C14_InvalidOptionsRejected ==
  (segment_size = {0} \/ segment_bytes = {0} \/ flush_workers = 0)
    => /\ pc \in {"validate", "error"}
       /\ pos = 0 /\ kept_msgs = 0
       /\ ~tmp_dir_created
       /\ \A w \in Workers : w_pc[w] = "unspawned"
       /\ rec = {} /\ fs = << >> /\ sink_pending = << >>
       /\ submitted = <<>>

C14_Witness ==
  /\ pc = "error"
  /\ flush_workers = 0
  /\ segment_size = {1} /\ segment_bytes = {}
  /\ dry_run
  /\ Len(chunks) = 2

\* ------------------------------------------ claims on the transform graph
\* Frames reached from the set S over the edge keys E (S included).
RECURSIVE ReachSet(_, _)
ReachSet(E, S) ==
  LET n == S \cup {k[2] : k \in {e \in E : e[1] \in S}} IN
  IF n = S THEN S ELSE ReachSet(E, n)

Acyclic(E) == \A k \in E : k[1] \notin ReachSet(E, {k[2]})

\* C15: the static edges never contain a directed cycle; the static
\* adjacency mirrors the edge map; and a transform whose parent is reachable
\* from its child over the static edges (parent = child included) leaves the
\* graph as it is, the transform after it in the same message being processed
\* as if the rejected one were absent.
C15_StaticAcyclic ==
  /\ Acyclic(DOMAIN static_edges)
  /\ \A p \in Frames :
       {c \in Frames : <<p, c>> \in DOMAIN static_edges}
         = (IF p \in DOMAIN static_graph THEN static_graph[p] ELSE {})
  /\ \A t1 \in StaticTransforms :
       t1.parent \in ReachSet(DOMAIN static_edges, {t1.child})
         => /\ IngestStaticLoop(static_edges, static_graph, <<t1>>)
                 = [static_edges |-> static_edges, static_graph |-> static_graph]
            /\ \A t2 \in StaticTransforms :
                 IngestStaticLoop(static_edges, static_graph, <<t1, t2>>)
                   = IngestStaticLoop(static_edges, static_graph, <<t2>>)

C15_Witness ==
  /\ DOMAIN static_edges = {<<1, 2>>}
  /\ DOMAIN IngestStaticLoop(static_edges, static_graph,
                             <<Transform(2, 1, <<0, 1, 0>>, 0),
                               Transform(2, 3, <<0, 1, 0>>, 0)>>).static_edges
       = {<<1, 2>>, <<2, 3>>}

\* C16: the static edges form a forest: no frame is the child of two static
\* edges.
C16_StaticForest ==
  \A c \in Frames : Cardinality({p \in Frames : <<p, c>> \in DOMAIN static_edges}) <= 1

\* C17: a stored static sample is never replaced: every key of the static
\* edge map keeps its sample across every step.
C17_StaticNeverOverwritten ==
  [][\A k \in DOMAIN static_edges :
       k \in DOMAIN static_edges' /\ static_edges'[k] = static_edges[k]]_vars

\* C18: after a dynamic ingest at message time t with buffer duration d no
\* edge of the graph holds a sample older than t - d, and on every edge the
\* samples held before that are not older than t - d are all still there, in
\* their order, at the front of the list.
C18_RetentionPruning ==
  [][(<<dynamic, ingest_ts>>' # <<dynamic, ingest_ts>>)
       => LET cutoff == ingest_ts' - tf_buffer_seconds IN
          /\ \A k \in DOMAIN dynamic' :
               \A i \in 1..Len(dynamic'[k]) : dynamic'[k][i].t >= cutoff
          /\ \A k \in DOMAIN dynamic :
               /\ k \in DOMAIN dynamic'
               /\ LET old == SelectSeq(dynamic[k], LAMBDA s : s.t >= cutoff) IN
                  /\ Len(old) <= Len(dynamic'[k])
                  /\ SubSeq(dynamic'[k], 1, Len(old)) = old]_vars

C18_Witness ==
  /\ tf_buffer_seconds = 1
  /\ ingest_ts = 2
  /\ DOMAIN dynamic = {<<1, 2>>, <<2, 3>>}
  /\ dynamic[<<1, 2>>] = <<>>
  /\ Len(dynamic[<<2, 3>>]) = 2
  /\ dynamic[<<2, 3>>][1].t = 1

\* C19: the samples of every dynamic edge are in ascending time order.
C19_DynamicAscending ==
  \A k \in DOMAIN dynamic :
    \A i, j \in 1..Len(dynamic[k]) : i < j => dynamic[k][i].t <= dynamic[k][j].t

\* Sequences of distinct frames.
FrameChains ==
  {q \in UNION {[1..n -> Frames] : n \in 1..Cardinality(Frames)} :
     \A i, j \in 1..Len(q) : i # j => q[i] # q[j]}

RECURSIVE SumTranslations(_, _)
SumTranslations(q, i) ==
  IF i >= Len(q) THEN <<0, 0, 0>>
  ELSE VecAdd(static_edges[<<q[i], q[i + 1]>>].trans, SumTranslations(q, i + 1))

\* C20: when the graph consists of static edges X0 -> X1 -> ... -> Xn with
\* identity rotations, resolve(Xn, X0, t, mode) returns the sum of their
\* translations, for every time and every mode; and a recorded query holds
\* what resolve returns on the graph.
C20_ChainComposition ==
  /\ \A q \in FrameChains :
       (/\ DOMAIN dynamic = {}
        /\ DOMAIN static_edges = {<<q[i], q[i + 1]>> : i \in 1..(Len(q) - 1)}
        /\ \A k \in DOMAIN static_edges : static_edges[k].quat = 0)
         => \A t \in 0..MaxTfTime, mode \in TfModes :
              resolve(tf_graph, q[Len(q)], q[1], t, mode)
                = {[trans |-> SumTranslations(q, 1), rot |-> 0]}
  /\ resolved # NoQuery
       => resolved.result = resolve(tf_graph, resolved.target, resolved.source,
                                    resolved.at_time, resolved.mode)

C20_Witness ==
  /\ DOMAIN static_edges = {<<1, 2>>, <<2, 3>>}
  /\ static_edges[<<1, 2>>].trans = <<1, 0, 0>>
  /\ static_edges[<<2, 3>>].trans = <<0, 1, 0>>
  /\ resolved = [target |-> 3, source |-> 1, at_time |-> 1, mode |-> "Nearest",
                 result |-> {[trans |-> <<1, 1, 0>>, rot |-> 0]}]

\* ------------------------------------------------------- queries on one edge
\* The recorded query asks for the transform along the dynamic edge of key
\* <<source, target>>, and no static edge joins the two frames.
QueryAlongDynamic ==
  /\ resolved # NoQuery
  /\ <<resolved.source, resolved.target>> \in DOMAIN dynamic
  /\ <<resolved.source, resolved.target>> \notin DOMAIN static_edges
  /\ <<resolved.target, resolved.source>> \notin DOMAIN static_edges

QueriedSamples == dynamic[<<resolved.source, resolved.target>>]

SamplesOf(q) == {q[i] : i \in 1..Len(q)}

\* v lies between x and y
Between(v, x, y) == (x <= v /\ v <= y) \/ (y <= v /\ v <= x)

\* C21: in Interpolate mode, on a dynamic edge, with `before` a latest sample
\* at or before the query time T and `after` an earliest sample at or after T:
\* when both exist at different times the resolved translation is
\* before + (T - t_before) / (t_after - t_before) * (after - before), which
\* lies between the two; when only one side exists that sample is returned
\* unchanged; when the edge holds no sample the resolve fails.
C21_Interpolate ==
  (QueryAlongDynamic /\ resolved.mode = "Interpolate") =>
    LET S == SamplesOf(QueriedSamples)
        T == resolved.at_time
        Before == {x \in S : x.t <= T /\ \A y \in S : y.t <= T => y.t <= x.t}
        After  == {x \in S : x.t >= T /\ \A y \in S : y.t >= T => y.t >= x.t}
    IN  /\ (Before # {} /\ After # {} /\ \A b \in Before, a \in After : a.t # b.t) =>
             \E b \in Before, a \in After, iso \in resolved.result :
               /\ resolved.result = {iso}
               /\ iso.rot = 0
               /\ \A i \in 1..3 :
                    /\ (a.t - b.t) * (iso.trans[i] - b.trans[i])
                         = (T - b.t) * (a.trans[i] - b.trans[i])
                    /\ Between(iso.trans[i], b.trans[i], a.trans[i])
        /\ (Before # {} /\ After = {}) =>
             \E b \in Before : resolved.result = {sample_to_isometry(b)}
        /\ (Before = {} /\ After # {}) =>
             \E a \in After : resolved.result = {sample_to_isometry(a)}
        /\ (S = {}) => resolved.result = {}

\* Samples {t = 0, y = TfScale} and {t = 2, x = TfScale} queried at t = 1
\* give the midpoint.
C21_Witness ==
  /\ QueryAlongDynamic /\ resolved.mode = "Interpolate"
  /\ resolved.at_time = 1
  /\ Len(QueriedSamples) = 2
  /\ QueriedSamples[1].t = 0 /\ QueriedSamples[1].trans = <<0, TfScale, 0>>
  /\ QueriedSamples[2].t = 2 /\ QueriedSamples[2].trans = <<TfScale, 0, 0>>
  /\ resolved.result = {[trans |-> <<TfScale \div 2, TfScale \div 2, 0>>, rot |-> 0]}

\* The chain of frame pairs the recorded query follows ({} when there is none).
QueriedPath == find_path(tf_graph, resolved.source, resolved.target)

\* The pair <<a, b>> of a chain is answered from a dynamic edge: no static
\* edge joins the two frames.
OnDynamicEdge(a, b) ==
  /\ <<a, b>> \notin DOMAIN static_edges
  /\ <<b, a>> \notin DOMAIN static_edges

\* The samples get_edge_transform reads for the pair <<a, b>>.
SamplesFor(a, b) ==
  IF <<a, b>> \in DOMAIN dynamic THEN dynamic[<<a, b>>] ELSE dynamic[<<b, a>>]

HasSampleAt(q, T) == \E x \in SamplesOf(q) : x.t = T

\* C22: in mode None a dynamic edge resolves iff it holds a sample at the
\* query time, and then to that sample; a query whose chain has a dynamic edge
\* without such a sample has no result, and a query whose chain has such a
\* sample on each of its dynamic edges has one.
C22_ExactMode ==
  (resolved # NoQuery /\ resolved.mode = "None") =>
    /\ QueryAlongDynamic =>
         /\ resolved.result # {} <=> HasSampleAt(QueriedSamples, resolved.at_time)
         /\ \A iso \in resolved.result :
              \E x \in SamplesOf(QueriedSamples) :
                x.t = resolved.at_time /\ iso = sample_to_isometry(x)
    /\ \A path \in QueriedPath :
         resolved.result # {} <=>
           \A i \in 1..Len(path) :
             OnDynamicEdge(path[i][1], path[i][2]) =>
               HasSampleAt(SamplesFor(path[i][1], path[i][2]), resolved.at_time)

\* Samples at t = 0 and t = 2 only: the query at t = 1 has no result.
C22_Witness ==
  /\ QueryAlongDynamic /\ resolved.mode = "None"
  /\ resolved.at_time = 1
  /\ Len(QueriedSamples) = 2
  /\ QueriedSamples[1].t = 0 /\ QueriedSamples[2].t = 2
  /\ resolved.result = {}

\* C23: in Nearest mode the sample used for a dynamic edge minimises
\* |sample.time - T| over the samples stored on the edge, is the earliest
\* stored one among those at the minimum, and an edge holding a sample always
\* resolves.
C23_Nearest ==
  (QueryAlongDynamic /\ resolved.mode = "Nearest" /\ QueriedSamples # <<>>) =>
    LET q == QueriedSamples
        T == resolved.at_time
    IN  \E k \in 1..Len(q) :
          /\ \A j \in 1..Len(q) : Abs(q[k].t - T) <= Abs(q[j].t - T)
          /\ \A j \in 1..(k - 1) : Abs(q[k].t - T) < Abs(q[j].t - T)
          /\ resolved.result = {sample_to_isometry(q[k])}

\* Two samples at the same distance from the query time, with different
\* translations: the one stored first is used.
C23_Witness ==
  /\ QueryAlongDynamic /\ resolved.mode = "Nearest"
  /\ resolved.at_time = 1
  /\ Len(QueriedSamples) = 2
  /\ QueriedSamples[1].t = 0 /\ QueriedSamples[2].t = 2
  /\ QueriedSamples[1].trans # QueriedSamples[2].trans
  /\ resolved.result = {sample_to_isometry(QueriedSamples[1])}

\* ------------------------------------------------------ direction of edges
\* The transforms stored on the only edge of the graph, of key <<P, C>>: the
\* sample of a static edge, or the single sample of a dynamic edge.
OnlyEdge(P, C) ==
  IF DOMAIN static_edges = {<<P, C>>} /\ DOMAIN dynamic = {}
  THEN {static_edges[<<P, C>>]}
  ELSE IF DOMAIN static_edges = {} /\ DOMAIN dynamic = {<<P, C>>}
          /\ Len(dynamic[<<P, C>>]) = 1
  THEN {dynamic[<<P, C>>][1]}
  ELSE {}

\* For a single edge P -> C with translation v, resolve(C, P) yields v and
\* resolve(P, C) yields -v.
SingleEdgeDirection ==
  \A P \in Frames, C \in Frames : \A x \in OnlyEdge(P, C) :
    (resolved # NoQuery /\ resolved.result # {}) =>
      /\ (resolved.target = C /\ resolved.source = P) =>
           resolved.result = {[trans |-> x.trans, rot |-> 0]}
      /\ (resolved.target = P /\ resolved.source = C) =>
           resolved.result = {[trans |-> VecNeg(x.trans), rot |-> 0]}

\* The result of the recorded query composed with the result of the query in
\* the other direction, at the same time and in the same mode, is the
\* identity.
RoundTripIsIdentity ==
  \A a \in resolved.result :
    \A b \in resolve(tf_graph, resolved.source, resolved.target,
                     resolved.at_time, resolved.mode) :
      IsoMul(a, b) = IsoIdentity /\ IsoMul(b, a) = IsoIdentity

\* The chain in the other direction is the chain of the recorded query run
\* backwards, and no dynamic edge of it has a dynamic edge of the opposite key.
Mirror(path) == [i \in 1..Len(path) |->
                  <<path[Len(path) + 1 - i][2], path[Len(path) + 1 - i][1]>>]

ChainIsTwoWay ==
  \A path \in QueriedPath :
    /\ find_path(tf_graph, resolved.target, resolved.source) = {Mirror(path)}
    /\ \A i \in 1..Len(path) :
         OnDynamicEdge(path[i][1], path[i][2]) =>
           ~(<<path[i][1], path[i][2]>> \in DOMAIN dynamic
             /\ <<path[i][2], path[i][1]>> \in DOMAIN dynamic)

\* C24 (as stated): an edge met in its key direction gives the stored
\* transform and met against it the inverse, for static and dynamic edges; for
\* a single edge P -> C with translation v resolve(C, P) is v and resolve(P, C)
\* is -v; and for any connected X, Y resolve(Y, X, t, m) composed with
\* resolve(X, Y, t, m) is the identity.
C24_DirectionAsStated ==
  /\ SingleEdgeDirection
  /\ resolved # NoQuery => RoundTripIsIdentity

\* C24 (amended): the same, the round trip being the identity when the chain
\* found from Y to X is the chain from X to Y run backwards and none of its
\* dynamic edges has a dynamic edge of the opposite key beside it.
C24_Direction ==
  /\ SingleEdgeDirection
  /\ (resolved # NoQuery /\ ChainIsTwoWay) => RoundTripIsIdentity

\* From frame 3 to frame 2 over the static edge 1 -> 3, met against its key,
\* and the dynamic edge 1 -> 2, met along it; both directions resolve.
C24_Witness ==
  /\ resolved # NoQuery /\ ChainIsTwoWay
  /\ resolved.source = 3 /\ resolved.target = 2
  /\ <<1, 3>> \in DOMAIN static_edges
  /\ DOMAIN dynamic = {<<1, 2>>}
  /\ \E x \in SamplesOf(dynamic[<<1, 2>>]) :
       resolved.result = {[trans |-> VecAdd(x.trans, VecNeg(static_edges[<<1, 3>>].trans)),
                           rot |-> 0]}
  /\ resolve(tf_graph, 3, 2, resolved.at_time, resolved.mode) # {}

\* ------------------------------------------------------ navigation records
\* The step dispatches an odometry, pose or path record.
NavRecordStep == nav_logged'.pos = pos' /\ pos' = pos + 1

\* resolve has no result for the frame of the record on the graph the record
\* meets.
NavMiss ==
  resolve(tf_graph, root_frame, nav_logged'.frame, ts_rel(chunks[pos'].time), tf_mode) = {}

\* C25: a resolution miss is not an error: an odometry, pose or path record
\* whose frame does not resolve is still logged, with the pose it carries in
\* its own frame; it is counted as kept and the run goes on.
C25_MissFallsBack ==
  [][(NavRecordStep /\ NavMiss) =>
       /\ nav_logged'.poses = <<NavPose>>
       /\ kept_msgs' = kept_msgs + 1
       /\ pc' \in {"pass2", "drop_rot"}
       /\ \E id \in rec' \cup dropping' :
            sink_pending'[id] = (IF rec = {} THEN 0 ELSE sink_pending[id]) + 1]_vars

\* A record of frame 3, which no transform joins to the root frame, has been
\* logged after a transform record, and the run has ended with Ok.
C25_Witness ==
  /\ pc = "done"
  /\ nav_logged.frame = 3
  /\ nav_logged.poses = <<NavPose>>
  /\ DOMAIN dynamic # {}
  /\ kept_msgs = 2

\* ------------------------------------------------------------ temp directory
\* Segments other runs may hold in the shared temp directory.
OtherSegments == Bags \X (0..MaxRecords)

\* C26: temp file names are unique per (input path, segment index): a segment
\* of the run, open or submitted, has the temp path of the segment i of the
\* input b only if b is the input of the run and i the index of its segment.
C26_TmpNamesUnique ==
  \A o \in OtherSegments :
    /\ (segmentation_enabled /\ rec # {} /\ TmpPathOfBag(o[1], o[2]) = current_tmp_path)
         => (o[1] = bag_path /\ o[2] = segment_index)
    /\ \A i \in 1..Len(submitted) :
         TmpPathOfBag(o[1], o[2]) = submitted[i].tmp_path
           => (o[1] = bag_path /\ o[2] + 1 = submitted[i].part_index)

\* ------------------------------------------------- coordinator and finalize
\* The threads of the flush stage that have been started.
StartedWorkers == {w \in Workers : w_pc[w] # "unspawned"}

\* C27: the coordinator is enabled iff a threshold is set and the run is not
\* a dry run; while it is not enabled no flush worker is started and no
\* FlushJob is created.
C27_NoPoolWhenDisabled ==
  /\ segmentation_enabled <=> ((segment_size # {} \/ segment_bytes # {}) /\ ~dry_run)
  /\ ~segmentation_enabled => (StartedWorkers = {} /\ submitted = <<>>)

\* The wait of flush_recording ends although the writer has not reported.
TimeoutExpires == pc = "single_wait" /\ pc' = "single_join" /\ ~flush_done

\* C28: with a timeout configured, when the wait ends before the writer has
\* reported, the producer warns and sets the stop flag, and the writer is
\* left alone with the recording; the run then never fails, it has returned
\* only after the monitor has ended, and flush_recording always returns,
\* whatever the writer does.
C28_TimeoutReturns ==
  /\ [][TimeoutExpires =>
          /\ flush_timeout_secs > 0
          /\ flush_warned' /\ stop_flag'
          /\ dropping' = dropping /\ sink_pending' = sink_pending]_vars
  /\ [](flush_warned => pc \in {"single_join", "done"})
  /\ [](pc = "done" => monitor_pc # "loop")
  /\ ((flush_timeout_secs > 0 /\ pc = "single_wait") ~> pc = "done")

\* The run has returned after a warning while the writer still holds the
\* recording with messages to write.
C28_Witness ==
  /\ pc = "done"
  /\ flush_warned
  /\ monitor_pc = "exited"
  /\ \E id \in dropping : sink_pending[id] > 0

\* --------------------------------------------------- liveness of the stage
\* Jobs one run can submit.
JobSlots == 1..(MaxRecords + 1)

\* C29: under fair scheduling every submitted job produces a result, every
\* worker has exited once the job queue is closed and drained, and the run
\* returns, whatever happens to the temp files.
C29_FlushStageLive ==
  /\ \A i \in JobSlots :
       (Len(submitted) >= i)
         ~> (Len(submitted) >= i /\ result_of[submitted[i].part_index] # <<>>)
  /\ (~flush_tx_open) ~> (\A w \in Spawned : w_pc[w] = "exited")
  /\ <>(pc \in {"done", "error"})

\* ------------------------------------------------------- handle and job
\* The segments whose recording the producer still holds: the open one and
\* the one it is dropping.
OpenHandles == rec \cup dropping

\* The jobs a worker can receive or has received.
JobsAtWorkers ==
  {flush_q[i].part_index : i \in 1..Len(flush_q)}
    \cup {w_job[w].part_index : w \in {v \in Workers : w_pc[v] = "poll"}}

\* C30: the recording of a segment is closed before its job is submitted: no
\* job in the queue or with a worker is of a segment whose recording the
\* producer still holds.
C30_ClosedBeforeSubmit ==
  segmentation_enabled => JobsAtWorkers \cap OpenHandles = {}

\* ------------------------------------------------------------ stability loop
\* What a poll of the worker w would see: the size of the temp file of its
\* job, or nothing when the metadata cannot be read.
SeenSize(w) ==
  IF w_job[w].tmp_path \in DOMAIN fs THEN {file_size[fs[w_job[w].tmp_path]]} ELSE {}

\* C31: a worker leaves the stability loop for the rename only with 10
\* consecutive stable polls counted; the count starts at 0 with the last
\* size 0, grows by one only on a poll that reads the size last recorded,
\* and any other change of it is a reset to 0 on a poll that reads another
\* size or cannot read the metadata.
C31_StableBeforeRename ==
  [][\A w \in Workers :
       /\ (w_pc[w] = "poll" /\ w_pc'[w] # "poll") => w_stable[w] = 10
       /\ (w_pc[w] = "recv" /\ w_pc'[w] = "poll")
            => (w_stable'[w] = 0 /\ w_last_size'[w] = 0)
       /\ (w_pc[w] = "poll" /\ w_pc'[w] = "poll" /\ w_stable'[w] # w_stable[w])
            => IF SeenSize(w) = {w_last_size[w]}
               THEN w_stable'[w] = w_stable[w] + 1 /\ w_last_size'[w] = w_last_size[w]
               ELSE w_stable'[w] = 0
       /\ (w_pc[w] = "poll" /\ w_pc'[w] = "poll" /\ w_last_size'[w] # w_last_size[w])
            => (w_stable'[w] = 0 /\ SeenSize(w) = {w_last_size'[w]})]_vars

\* A worker has counted 10 stable polls of a file that had grown while it
\* was polling, and has renamed it.
C31_Witness ==
  \E w \in Workers :
    /\ w_pc[w] = "recv"
    /\ w_stable[w] = 10
    /\ w_last_size[w] > 0
    /\ result_of[1] = <<"ok">>

\* ------------------------------------------------------------ lazy opening
\* A step that opens an output target: the single output or a segment temp
\* file appears in the file system.
OpensTarget ==
  \E p \in DOMAIN fs' \ DOMAIN fs : p = OutputPath \/ IsTmpPath(p)

\* C32: an output target is opened only by a kept record: a step that opens
\* the single output or a segment temp file counts its record as kept, so
\* that records that are filtered out or of an unknown type open nothing.
C32_OpenedByKeptRecord ==
  [][OpensTarget => kept_msgs' = kept_msgs + 1]_vars

\* The same for the runs that do not fail: a run that has gone through all
\* its records without an error and kept none has created no file.
NothingKeptNothingOpened ==
  (pc = "done" /\ kept_msgs = 0) => DOMAIN fs = {}

\* ------------------------------------------------------------------ order
\* The files a step logs a record to.
LoggedTo ==
  {id \in DOMAIN sink_pending' :
     sink_pending'[id] > (IF id \in DOMAIN sink_pending THEN sink_pending[id] ELSE 0)}

\* C33: the records are taken one at a time in the order of the reader; a
\* record is logged to the newest segment, whose index is at least that of
\* every segment opened before; and every record logged to an earlier
\* segment has been written by the sink before a later segment receives one.
C33_ReaderOrder ==
  /\ [][pos' \in {pos, pos + 1}]_vars
  /\ [][\A id \in LoggedTo :
          /\ pos' = pos + 1
          /\ \A other \in DOMAIN sink_pending' : other <= id]_vars
  /\ [](\A i, j \in DOMAIN sink_pending : i < j => sink_pending[i] = 0)

\* The second record is logged to segment 2 after the first was written to
\* segment 1.
C33_Witness ==
  /\ pos = 2
  /\ DOMAIN sink_pending = {1, 2}
  /\ file_size[1] = 1
  /\ sink_pending[2] = 1

\* ------------------------------------------------------- chains of resolve
\* The edge keys of the graph, static and dynamic.
EdgeKeys == DOMAIN static_edges \cup DOMAIN dynamic

\* Two frames joined by an edge key, whatever its direction.
Joined(a, b) == <<a, b>> \in EdgeKeys \/ <<b, a>> \in EdgeKeys

\* The frames within n edges of the frames S in the undirected union.
RECURSIVE Within(_, _)
Within(S, n) ==
  IF n = 0 THEN S
  ELSE Within(S \cup {b \in Frames : \E a \in S : Joined(a, b)}, n - 1)

\* The least number of edges of a chain from a to b, when there is one.
Distance(a, b) ==
  CHOOSE n \in 0..Cardinality(Frames) :
    b \in Within({a}, n) /\ \A m \in 0..(n - 1) : b \notin Within({a}, m)

\* The pair <<a, b>> of a chain has a transform at time T under the mode: a
\* static edge always, a dynamic edge with a sample at T in mode None and
\* with any sample in the other modes.
EdgeResolves(a, b, T, mode) ==
  \/ ~OnDynamicEdge(a, b)
  \/ /\ (<<a, b>> \in DOMAIN dynamic \/ <<b, a>> \in DOMAIN dynamic)
     /\ IF mode = "None" THEN HasSampleAt(SamplesFor(a, b), T)
        ELSE SamplesFor(a, b) # <<>>

\* path is a chain of joined frames from source to target.
IsChain(path, source, target) ==
  /\ \A i \in 1..Len(path) : Joined(path[i][1], path[i][2])
  /\ \A i \in 1..(Len(path) - 1) : path[i][2] = path[i + 1][1]
  /\ IF path = <<>> THEN source = target
     ELSE path[1][1] = source /\ path[Len(path)][2] = target

\* C34: the search finds a chain iff source and target are connected in the
\* undirected union of the edge keys, and the chain found has the least
\* number of edges; resolve returns a transform iff a chain is found and
\* every edge of it has a transform under the mode, whatever other chains
\* there are; and resolve(X, X) is the identity.
C34_ResolveOnFoundChain ==
  resolved # NoQuery =>
    /\ QueriedPath # {} <=> resolved.target \in Within({resolved.source}, Cardinality(Frames))
    /\ \A path \in QueriedPath :
         /\ IsChain(path, resolved.source, resolved.target)
         /\ Len(path) = Distance(resolved.source, resolved.target)
         /\ resolved.result # {} <=>
              \A i \in 1..Len(path) :
                EdgeResolves(path[i][1], path[i][2], resolved.at_time, resolved.mode)
    /\ QueriedPath = {} => resolved.result = {}
    /\ resolved.source = resolved.target => resolved.result = {IsoIdentity}

\* A query from 1 to 2 in mode None fails on the chain found, the dynamic
\* edge 1 - 2, which has no sample at the query time, although the chain
\* 1 - 3 - 2 has a transform on each of its edges.
C34_Witness ==
  /\ resolved # NoQuery
  /\ resolved.source = 1 /\ resolved.target = 2 /\ resolved.mode = "None"
  /\ QueriedPath = {<<<<1, 2>>>>}
  /\ resolved.result = {}
  /\ EdgeResolves(1, 3, resolved.at_time, "None")
  /\ EdgeResolves(3, 2, resolved.at_time, "None")
  /\ Joined(1, 3) /\ Joined(3, 2)

\* -------------------------------------------------------------- statistics
\* C35: at the end of a non-dry run that completes, every message record
\* counted by the first pass is counted in exactly one of kept_msgs,
\* skipped_type and filtered_out.
C35_StatsAccount ==
  (pc = "done" /\ ~dry_run) =>
    total_msgs = kept_msgs + stats.skipped_type + stats.filtered_out

\* ------------------------------------------------- who changes the graph
\* The edges of the transform graph.
GraphEdges == <<dynamic, static_edges, static_graph>>

\* The step keeps a record that counts no unit and is no odometry, pose or
\* path record: a record of one of the four transform types.
TfRecordStep ==
  /\ pos' = pos + 1
  /\ kept_msgs' = kept_msgs + 1
  /\ UnitsKept' = UnitsKept
  /\ nav_logged' = nav_logged

\* C36: the edges of the transform graph change only in a step that takes a
\* transform record; every other step, the resolve of a pose record, a
\* rotation and the opening of a segment included, leaves them as they are,
\* and a pose record resolves on the edges ingested so far, whatever segment
\* was open when they were ingested.
C36_GraphFrame ==
  [][/\ GraphEdges' # GraphEdges => TfRecordStep
     /\ (NavRecordStep /\ nav_logged'.frame = 2
           /\ EdgeResolves(2, root_frame, ts_rel(chunks[pos'].time), tf_mode))
          => /\ GraphEdges' = GraphEdges
             /\ nav_logged'.poses[Len(nav_logged'.poses)].trans # NavPose.trans]_vars

\* The third record, a pose in frame 2, is logged in the root frame to
\* segment 2 with the transform that the first record brought while segment
\* 1 was open.
C36_Witness ==
  /\ pos = 3
  /\ nav_logged.pos = 3 /\ nav_logged.frame = 2
  /\ nav_logged.poses # <<NavPose>>
  /\ DOMAIN fs # {}
  /\ DOMAIN file_size = {1, 2}
  /\ file_size[1] + sink_pending[1] = 2
  /\ file_size[2] + sink_pending[2] = 1
  /\ stats.images = 1

\* ---------------------------------------------------------- segment state
\* C37 as stated: with segmentation enabled, an open segment is below every
\* set threshold between the records of the second pass, and whenever no
\* segment is open, in any state of a run that has not failed, the counters
\* are 0 and the paths empty.
C37_SegmentStateAsStated ==
  (segmentation_enabled /\ pc # "error") =>
    /\ (pc \in {"pass2", "drop_rot"} /\ rec # {}) =>
         /\ \A k \in segment_size : segment_images < k
         /\ \A k \in segment_bytes : segment_raw_bytes < k
    /\ rec = {} =>
         /\ segment_images = 0 /\ segment_raw_bytes = 0
         /\ current_tmp_path = NoPath /\ current_final_path = NoPath

\* C37: with segmentation enabled, between the records of the second pass
\* (the rotation check of the last record done), an open segment has fewer
\* units than the unit threshold and fewer bytes than the byte threshold,
\* for each threshold that is set; and when no segment is open the unit and
\* byte counters are 0 and the current temp and final paths are empty.
C37_SegmentState ==
  (segmentation_enabled /\ pc \in {"pass2", "drop_rot"}) =>
    /\ rec # {} =>
         /\ \A k \in segment_size : segment_images < k
         /\ \A k \in segment_bytes : segment_raw_bytes < k
         /\ current_tmp_path = TmpPathOf(segment_index)
    /\ rec = {} =>
         /\ segment_images = 0 /\ segment_raw_bytes = 0
         /\ current_tmp_path = NoPath /\ current_final_path = NoPath

\* Both thresholds are set and the open segment, with one unit of one byte,
\* is below both.
C37_Witness ==
  /\ pc = "pass2"
  /\ segment_size = {2} /\ segment_bytes = {2} /\ ~dry_run
  /\ rec # {}
  /\ segment_images = 1 /\ segment_raw_bytes = 1

\* ------------------------------------------------------------ aborted runs
\* C38: a run that returns an error after it has submitted jobs has waited
\* for the result of every submitted job and joined the workers: when it has
\* returned, every job has its result, no temp file of a job is left in
\* place and every worker has exited.
C38_AbortWaitsForJobs ==
  (pc = "error" /\ submitted # <<>>) =>
    /\ \A i \in 1..Len(submitted) :
         /\ result_of[submitted[i].part_index] # <<>>
         /\ submitted[i].tmp_path \notin DOMAIN fs
    /\ \A w \in Spawned : w_pc[w] = "exited"

\* ------------------------------------------------------- pruned edge keys
\* The queried frames are connected in the undirected union of the keys.
QueryConnected == resolved.target \in Within({resolved.source}, Cardinality(Frames))

\* The pair <<a, b>> of a chain has a sample: a static edge, or a dynamic
\* edge whose list is not empty.
EdgeHasSample(a, b) == ~OnDynamicEdge(a, b) \/ SamplesFor(a, b) # <<>>

\* C39 as stated: every dynamic edge key of the graph holds at least one
\* sample, and in Nearest or Interpolate mode resolve succeeds whenever
\* source and target are connected in the undirected union of the edge keys.
C39_NoEmptyEdgeAsStated ==
  /\ \A k \in DOMAIN dynamic : dynamic[k] # <<>>
  /\ (resolved # NoQuery /\ resolved.mode \in {"Nearest", "Interpolate"} /\ QueryConnected)
       => resolved.result # {}

\* C39: a dynamic ingest leaves at least one sample on every edge key it
\* adds to the graph; the keys already there keep their key, with an empty
\* list when every sample of theirs has fallen out of the window.  In Nearest
\* or Interpolate mode resolve succeeds iff source and target are connected
\* and every edge of the chain found holds a sample.
C39_PrunedKeysStay ==
  /\ [][/\ \A k \in DOMAIN dynamic : k \in DOMAIN dynamic'
        /\ \A k \in DOMAIN dynamic' \ DOMAIN dynamic : dynamic'[k] # <<>>]_vars
  /\ [](\A k \in DOMAIN dynamic :
          dynamic[k] = <<>> \/ dynamic[k][Len(dynamic[k])].t >= ingest_ts - tf_buffer_seconds)
  /\ []((resolved # NoQuery /\ resolved.mode \in {"Nearest", "Interpolate"}) =>
          (resolved.result # {} <=>
             /\ QueryConnected
             /\ \A path \in QueriedPath :
                  \A i \in 1..Len(path) : EdgeHasSample(path[i][1], path[i][2])))

\* Frames 1 and 2 are joined by a dynamic key whose samples have all been
\* pruned, and a Nearest query between them has no result.
C39_Witness ==
  /\ resolved # NoQuery
  /\ resolved.mode = "Nearest"
  /\ resolved.source = 1 /\ resolved.target = 2
  /\ <<1, 2>> \in DOMAIN dynamic
  /\ dynamic[<<1, 2>>] = <<>>
  /\ QueryConnected
  /\ resolved.result = {}

\* ------------------------------------------------------- dry run and real run
\* The kept count a dry run reports for the records read so far: with no
\* filter set, every record whose connection resolves reaches
\* `if options.dry_run { kept_msgs += 1; continue; }`; the others are the
\* records counted in filtered_out.
DryRunKept == pos - stats.filtered_out

\* C40: for the same record stream and the same filter options the kept
\* count of a finished real run in which every record decodes equals the
\* kept count a dry run reports, whatever type-names the stream contains.
C40_DryRunPredictsKept ==
  (pc = "done" /\ ~dry_run) => kept_msgs = DryRunKept

\* What the two kinds of run do report: a dry run keeps every resolved
\* record and skips none; a real run splits the same records between kept
\* and skipped_type.
DryRunCountsBeforeDispatch ==
  pc \in {"pass2", "done"} =>
    /\ dry_run => (kept_msgs = DryRunKept /\ stats.skipped_type = 0)
    /\ ~dry_run => kept_msgs + stats.skipped_type = DryRunKept

====
